---- MODULE Spec2Model ----
\* Query-builder core of conservator: the Expression rendering algorithm and
\* the SELECT / INSERT / UPDATE / DELETE builders, modelled as state machines
\* over token sequences (a rendered SQL string is the sequence of its tokens).
EXTENDS Integers, Sequences, FiniteSets, TLC

\* ------------------------------------------------------------------ bounds
\* values a caller binds
MaxValue == 2
\* longest value list handed to in_list / comparison_multi
MaxIn == 2
\* number of and / or calls on one expression
MaxCombine == 2
\* largest start index handed to build_with_offset
MaxStart == 2

Vals == 1..MaxValue

\* ------------------------------------------------------------ SQL tokens
\* every token is a record of the same shape: kind, text, number
Kw(s) == [k |-> "kw", s |-> s, n |-> 0]
Ident(s) == [k |-> "ident", s |-> s, n |-> 0]
Quoted(s) == [k |-> "quoted", s |-> s, n |-> 0]
Param(n) == [k |-> "param", s |-> "$", n |-> n]
Num(n) == [k |-> "num", s |-> "", n |-> n]

IsParam(t) == t.k = "param"

\* the numbers of the $n placeholders of a text, read left to right
Placeholders(sql) ==
    LET ps == SelectSeq(sql, IsParam)
    IN  [j \in 1..Len(ps) |-> ps[j].n]

\* the contiguous run i, i+1, ..., i+n-1
Run(i, n) == [j \in 1..n |-> i + j - 1]

RECURSIVE JoinSep(_, _)
\* Vec<String>::join(sep)
JoinSep(parts, sep) ==
    IF Len(parts) = 0 THEN <<>>
    ELSE IF Len(parts) = 1 THEN parts[1]
    ELSE parts[1] \o sep \o JoinSep(Tail(parts), sep)

RECURSIVE Flat(_)
\* concatenation of a sequence of sequences
Flat(ss) == IF Len(ss) = 0 THEN <<>> ELSE ss[1] \o Flat(Tail(ss))

\* ------------------------------------------------------------- FieldInfo
FieldInfo(name, table, pk) == [name |-> name, table |-> table, is_primary_key |-> pk]

quoted_name(f) == <<Quoted(f.name)>>

qualified_name(f) == <<Ident(f.table), Kw("."), Quoted(f.name)>>

id_field == FieldInfo("id", "users", TRUE)
name_field == FieldInfo("name", "users", FALSE)
email_field == FieldInfo("email", "users", FALSE)

\* -------------------------------------------------------------- Operator
Operator == {"Eq", "Ne", "Gt", "Lt", "Gte", "Lte", "Like", "In", "IsNull", "IsNotNull", "Between"}

Operator_to_sql(op) ==
    CASE op = "Eq" -> "="
      [] op = "Ne" -> "!="
      [] op = "Gt" -> ">"
      [] op = "Lt" -> "<"
      [] op = "Gte" -> ">="
      [] op = "Lte" -> "<="
      [] op = "Like" -> "LIKE"
      [] op = "In" -> "IN"
      [] op = "IsNull" -> "IS NULL"
      [] op = "IsNotNull" -> "IS NOT NULL"
      [] op = "Between" -> "BETWEEN"

\* ------------------------------------------------------------ Expression
NoExpr == [kind |-> "None"]

comparison(field, operator, value) ==
    [kind |-> "Comparison", field |-> field, operator |-> operator, values |-> <<value>>]

comparison_no_value(field, operator) ==
    [kind |-> "Comparison", field |-> field, operator |-> operator, values |-> <<>>]

comparison_multi(field, operator, values) ==
    [kind |-> "Comparison", field |-> field, operator |-> operator, values |-> values]

\* and with the operands exchanged
and_flipped(self, other) == [kind |-> "And", left |-> other, right |-> self]

and(self, other) == [kind |-> "And", left |-> self, right |-> other]

or(self, other) == [kind |-> "Or", left |-> self, right |-> other]

\* the leaf arm of build_internal_with_qualifier
comparison_sql(e, start_param, use_qualified) ==
    LET field_name == IF use_qualified THEN qualified_name(e.field) ELSE quoted_name(e.field)
        param_count == Len(e.values)
    IN  CASE e.operator \in {"IsNull", "IsNotNull"} ->
               field_name \o <<Kw(Operator_to_sql(e.operator))>>
          [] e.operator = "In" ->
               field_name \o <<Kw("IN"), Kw("(")>>
                 \o JoinSep([i \in 1..param_count |-> <<Param(start_param + (i - 1))>>], <<Kw(",")>>)
                 \o <<Kw(")")>>
          [] e.operator = "Between" ->
               field_name \o <<Kw("BETWEEN"), Param(start_param), Kw("AND"), Param(start_param + 1)>>
          [] OTHER ->
               field_name \o <<Kw(Operator_to_sql(e.operator)), Param(start_param)>>

RECURSIVE build_internal_with_qualifier(_, _, _)
\* returns (sql, values, next_param_index)
build_internal_with_qualifier(e, start_param, use_qualified) ==
    IF e.kind = "Comparison" THEN
        [sql |-> comparison_sql(e, start_param, use_qualified),
         values |-> e.values,
         next |-> start_param + Len(e.values)]
    ELSE
        LET l == build_internal_with_qualifier(e.left, start_param, use_qualified)
            r == build_internal_with_qualifier(e.right, l.next, use_qualified)
            word == IF e.kind = "And" THEN "AND" ELSE "OR"
        IN  [sql |-> <<Kw("(")>> \o l.sql \o <<Kw(word)>> \o r.sql \o <<Kw(")")>>,
             values |-> l.values \o r.values,
             next |-> r.next]

build_internal(e, start_param) == build_internal_with_qualifier(e, start_param, FALSE)

\* Expression::build_with_offset(start): the rendering algorithm from a given
\* start index, returning (sql, values, next)
build_with_offset(e, start_param) == build_internal(e, start_param)

\* the `&` sugar for Expression::and
bitand(self, other) == and(self, other)

\* ---------------------------------------------------------- Field<T> methods
Compare1 == {"Eq", "Ne", "Gt", "Lt", "Gte", "Lte"}

field_compare(f, op, value) == comparison(f, op, value)

\* between putting the smaller bound first
between_sorted(f, low, high) ==
    comparison_multi(f, "Between", IF low <= high THEN <<low, high>> ELSE <<high, low>>)

between(f, low, high) == comparison_multi(f, "Between", <<low, high>>)

in_list(f, values) == comparison_multi(f, "In", values)

is_null(f) == comparison_no_value(f, "IsNull")

is_not_null(f) == comparison_no_value(f, "IsNotNull")

like(f, pattern) == comparison(f, "Like", pattern)

\* value lists of length 0..MaxIn
ValueLists == UNION {[1..n -> Vals] : n \in 0..MaxIn}

\* expressions handed as the other operand of and / or
OperandInputs ==
    { field_compare(id_field, "Eq", 1),
      like(name_field, 2),
      is_null(email_field) }

RECURSIVE Combines(_)
\* number of And / Or nodes of a tree
Combines(e) ==
    IF e.kind = "Comparison" THEN 0 ELSE 1 + Combines(e.left) + Combines(e.right)

RECURSIVE Leaves(_)
\* the leaves of a tree, left to right
Leaves(e) ==
    IF e.kind = "Comparison" THEN <<e>> ELSE Leaves(e.left) \o Leaves(e.right)

\* ------------------------------------------------------------------ state
VARIABLES
    expr,            \* the Expression under construction
    result,          \* what build returned for it
    expr_calls,      \* the leaf the expression started from and the and/or calls since
    sel,             \* SelectBuilder fields and its Returning type parameter
    sel_calls,       \* the arguments passed to filter, order_by, limit and offset
    sel_result,      \* what SelectBuilder::build returned
    upd,             \* UpdateBuilder fields and its two const parameters
    upd_result,      \* what UpdateBuilder::build / execute returned
    del,             \* DeleteBuilder fields and its const parameter
    del_result,      \* what DeleteBuilder::build / execute returned
    ins,             \* InsertManyBuilder::data
    ins_sql,         \* the statement text a terminal operation formatted
    ins_result,      \* what the terminal operation returned
    executor_calls,  \* the calls received by the executor, in order
    mig,             \* the Migrator: its migrations, locking, ignore_missing
    added_late,      \* some add_migration call gave a version below one already held
    db,              \* the records of _conservator_migrations, known from the first run on
    runs,            \* the two most recent calls of Migrator::run, oldest first
    runners,         \* concurrent calls of Migrator::run, one per connection
    pg,              \* the database the concurrent runs share
    decoded,         \* the last column decoded: target type, cell, result
    matching,        \* the rows that match the query of query_opt right now
    writes,          \* how many times concurrent writers changed them
    qo,              \* the call of Executor::query_opt: position, outcome
    lit_str,         \* the SQL literal in the body of a #[sql] function
    query_stmt       \* what the #[sql] handler generated for it: sql, bind arguments

exprVars == <<expr, result, expr_calls>>
selVars == <<sel, sel_calls, sel_result>>
updVars == <<upd, upd_result>>
delVars == <<del, del_result>>
insVars == <<ins, ins_sql, ins_result>>
migVars == <<mig, added_late, db, runs>>
conVars == <<runners, pg>>
decVars == <<decoded>>
qoVars == <<matching, writes, qo>>
sqlVars == <<lit_str, query_stmt>>

vars == <<sqlVars, qoVars, decVars, conVars, exprVars, selVars, updVars, delVars, insVars, executor_calls, migVars>>

notExpr == <<sqlVars, qoVars, decVars, conVars, selVars, updVars, delVars, insVars, executor_calls, migVars>>
notSel == <<sqlVars, qoVars, decVars, conVars, exprVars, updVars, delVars, insVars, executor_calls, migVars>>
notUpd == <<sqlVars, qoVars, decVars, conVars, exprVars, selVars, delVars, insVars, migVars>>
notDel == <<sqlVars, qoVars, decVars, conVars, exprVars, selVars, updVars, insVars, migVars>>
notIns == <<sqlVars, qoVars, decVars, conVars, exprVars, selVars, updVars, delVars, migVars>>
notMig == <<sqlVars, qoVars, decVars, conVars, exprVars, selVars, updVars, delVars, insVars, executor_calls>>
notCon == <<sqlVars, qoVars, decVars, exprVars, selVars, updVars, delVars, insVars, executor_calls, migVars>>
notDec == <<sqlVars, qoVars, conVars, exprVars, selVars, updVars, delVars, insVars, executor_calls, migVars>>
notQo == <<sqlVars, decVars, conVars, exprVars, selVars, updVars, delVars, insVars, executor_calls, migVars>>
notSql == <<qoVars, decVars, conVars, exprVars, selVars, updVars, delVars, insVars, executor_calls, migVars>>

NoResult == [kind |-> "None"]

None == [kind |-> "None"]

Some(x) == [kind |-> "Some", v |-> x]

\* ------------------------------------------- the Expression state machine
\* the history of an expression: its first leaf, the arguments given to
\* Field::between if it came from there, then the and/or calls made
Started(leaf) == [first |-> leaf, args |-> <<>>, chain |-> <<>>]

Chained(method, other) ==
    [expr_calls EXCEPT !.chain = Append(@, [method |-> method, other |-> other])]

ExprInit ==
    /\ expr = NoExpr
    /\ result = NoResult
    /\ expr_calls = Started(NoExpr)

Building == result = NoResult

FieldCompare ==
    /\ Building /\ expr = NoExpr
    /\ \E op \in Compare1, v \in Vals : expr' = field_compare(id_field, op, v)
    /\ expr_calls' = Started(expr')
    /\ UNCHANGED <<result, notExpr>>

FieldBetween ==
    /\ Building /\ expr = NoExpr
    /\ \E lo \in Vals, hi \in Vals :
         /\ expr' = between(id_field, lo, hi)
         /\ expr_calls' = [Started(expr') EXCEPT !.args = <<lo, hi>>]
    /\ UNCHANGED <<result, notExpr>>

FieldInList ==
    /\ Building /\ expr = NoExpr
    /\ \E vs \in ValueLists : expr' = in_list(id_field, vs)
    /\ expr_calls' = Started(expr')
    /\ UNCHANGED <<result, notExpr>>

FieldIsNull ==
    /\ Building /\ expr = NoExpr
    /\ expr' \in {is_null(email_field), is_not_null(email_field)}
    /\ expr_calls' = Started(expr')
    /\ UNCHANGED <<result, notExpr>>

FieldLike ==
    /\ Building /\ expr = NoExpr
    /\ \E v \in Vals : expr' = like(name_field, v)
    /\ expr_calls' = Started(expr')
    /\ UNCHANGED <<result, notExpr>>

RawComparison ==
    /\ Building /\ expr = NoExpr
    /\ \E op \in Operator, v \in Vals : expr' = comparison(id_field, op, v)
    /\ expr_calls' = Started(expr')
    /\ UNCHANGED <<result, notExpr>>

RawComparisonNoValue ==
    /\ Building /\ expr = NoExpr
    /\ \E op \in Operator : expr' = comparison_no_value(id_field, op)
    /\ expr_calls' = Started(expr')
    /\ UNCHANGED <<result, notExpr>>

RawComparisonMulti ==
    /\ Building /\ expr = NoExpr
    /\ \E op \in Operator, vs \in ValueLists : expr' = comparison_multi(id_field, op, vs)
    /\ expr_calls' = Started(expr')
    /\ UNCHANGED <<result, notExpr>>

\* expr.and(other)
And ==
    /\ Building /\ expr # NoExpr /\ Combines(expr) < MaxCombine
    /\ \E other \in OperandInputs :
         /\ expr' = and(expr, other)
         /\ expr_calls' = Chained("and", other)
    /\ UNCHANGED <<result, notExpr>>

\* expr.or(other)
Or ==
    /\ Building /\ expr # NoExpr /\ Combines(expr) < MaxCombine
    /\ \E other \in OperandInputs :
         /\ expr' = or(expr, other)
         /\ expr_calls' = Chained("or", other)
    /\ UNCHANGED <<result, notExpr>>

\* other.and(expr): the tree built so far becomes the right operand
AndInto ==
    /\ Building /\ expr # NoExpr /\ Combines(expr) < MaxCombine
    /\ \E other \in OperandInputs :
         /\ expr' = and(other, expr)
         /\ expr_calls' = Chained("and_into", other)
    /\ UNCHANGED <<result, notExpr>>

Built(e, start, qualified, r) ==
    [kind |-> "Sql", of |-> e, start |-> start, qualified |-> qualified,
     sql |-> r.sql, values |-> r.values]

\* Expression::build: consumes the expression
Build ==
    /\ Building /\ expr # NoExpr
    /\ result' = Built(expr, 1, FALSE, build_internal(expr, 1))
    /\ expr' = NoExpr
    /\ UNCHANGED <<expr_calls, notExpr>>

BuildQualified ==
    /\ Building /\ expr # NoExpr
    /\ result' = Built(expr, 1, TRUE, build_internal_with_qualifier(expr, 1, TRUE))
    /\ expr' = NoExpr
    /\ UNCHANGED <<expr_calls, notExpr>>

BuildWithOffset ==
    /\ Building /\ expr # NoExpr
    /\ \E i \in 1..MaxStart : result' = Built(expr, i, FALSE, build_with_offset(expr, i))
    /\ expr' = NoExpr
    /\ UNCHANGED <<expr_calls, notExpr>>

ExprNext ==
    \/ FieldCompare \/ FieldBetween \/ FieldInList \/ FieldIsNull \/ FieldLike
    \/ RawComparison \/ RawComparisonNoValue \/ RawComparisonMulti
    \/ And \/ Or \/ AndInto
    \/ Build \/ BuildQualified \/ BuildWithOffset

\* ------------------------------------------------ Order / JoinClause
Order_to_sql(order) == IF order = "Asc" THEN "ASC" ELSE "DESC"

OrderedField(field, order) == [field |-> field, order |-> order]

\* IntoOrderedField: an OrderedField is kept, a bare FieldInfo / Field<T> is
\* ascending
into_ordered_field(field) ==
    IF "order" \in DOMAIN field THEN field ELSE OrderedField(field, "Asc")

JoinType_to_sql(join_type) ==
    CASE join_type = "Inner" -> "INNER JOIN"
      [] join_type = "Left" -> "LEFT JOIN"
      [] join_type = "Right" -> "RIGHT JOIN"

JoinClause(join_type, table, on) == [join_type |-> join_type, table |-> table, on |-> on]

\* ------------------------------------------------- Selectable / Domain
\* the entity of the builders' unit tests and the projection of the pass tests
COLUMN_NAMES(ty) ==
    CASE ty = "TestUser" -> <<"id", "name", "email">>
      [] ty = "Profile" -> <<"id", "user_id", "bio", "website">>
      [] OTHER -> <<"id", "name">>

TABLE_NAME == "users"

\* a second entity, with a table of its own, usable as a projection type
Profile_TABLE_NAME == "profiles"

PK_FIELD_NAME == "id"

\* ---------------------------------------------------- SelectBuilder inputs
MaxFilterCalls == 2
MaxJoins == 1
MaxOrderBy == 2
MaxGroupBy == 1
MaxCalls == 6

post_user_id == FieldInfo("user_id", "posts", FALSE)
post_id == FieldInfo("id", "posts", TRUE)

FilterInputs ==
    { field_compare(id_field, "Gt", 1),
      or(like(name_field, 2), is_null(email_field)),
      comparison_multi(id_field, "Between", <<2>>) }

JoinOnInner == field_compare(post_user_id, "Eq", 2)
JoinOnLeft == between(post_id, 1, 2)
JoinOnRight == in_list(post_id, <<>>)

OrderByInputs == {id_field, OrderedField(name_field, "Desc")}

GroupByInputs == {name_field}

LimitInputs == {5, 10}

OffsetInputs == {0, 20}

ReturningInputs == {"UserSummary", "Profile"}

\* -------------------------------------------------------- SelectBuilder
SelectBuilder_new ==
    [filter_expr |-> None, order_by |-> <<>>, limit |-> None, offset |-> None,
     group_by |-> <<>>, joins |-> <<>>, Returning |-> "TestUser"]

\* returning that starts from an empty builder
SelectBuilder_returning_resets(self, R) ==
    [filter_expr |-> None, order_by |-> <<>>, limit |-> None, offset |-> None,
     group_by |-> <<>>, joins |-> <<>>, Returning |-> R]

SelectBuilder_returning(self, R) ==
    [filter_expr |-> self.filter_expr, order_by |-> self.order_by, limit |-> self.limit,
     offset |-> self.offset, group_by |-> self.group_by, joins |-> self.joins,
     Returning |-> R]

\* filter replacing the earlier filter
SelectBuilder_filter_replaces(self, e) == [self EXCEPT !.filter_expr = Some(e)]

SelectBuilder_filter(self, e) ==
    [self EXCEPT !.filter_expr =
        IF self.filter_expr.kind = "Some" THEN Some(bitand(self.filter_expr.v, e))
        ELSE Some(e)]

\* order_by putting the new key in front of the earlier ones
SelectBuilder_order_by_prepends(self, field) ==
    [self EXCEPT !.order_by = <<into_ordered_field(field)>> \o @]

SelectBuilder_order_by(self, field) ==
    [self EXCEPT !.order_by = Append(@, into_ordered_field(field))]

\* limit keeping the limit set by an earlier call
SelectBuilder_limit_first_wins(self, limit) ==
    [self EXCEPT !.limit = IF @ = None THEN Some(limit) ELSE @]

SelectBuilder_limit(self, limit) == [self EXCEPT !.limit = Some(limit)]

SelectBuilder_offset(self, offset) == [self EXCEPT !.offset = Some(offset)]

SelectBuilder_group_by(self, field) == [self EXCEPT !.group_by = Append(@, field)]

SelectBuilder_join(self, join_type, table, on) ==
    [self EXCEPT !.joins = Append(@, JoinClause(join_type, table, on))]

RECURSIVE build_joins(_, _)
\* the `for join in self.joins` loop of build: (sql, values, param_idx)
build_joins(joins, param_idx) ==
    IF Len(joins) = 0 THEN [sql |-> <<>>, values |-> <<>>, next |-> param_idx]
    ELSE
        LET join == joins[1]
            on == build_with_offset(join.on, param_idx)
            rest == build_joins(Tail(joins), on.next)
        IN  [sql |-> <<Kw(JoinType_to_sql(join.join_type)), Ident(join.table), Kw("ON")>>
                       \o on.sql \o rest.sql,
             values |-> on.values \o rest.values,
             next |-> rest.next]

\* the FROM clause naming the table of the projection type
select_clause_from_returning(self) ==
    <<Kw("SELECT")>>
      \o JoinSep([j \in 1..Len(COLUMN_NAMES(self.Returning)) |->
                    <<Quoted(COLUMN_NAMES(self.Returning)[j])>>], <<Kw(",")>>)
      \o <<Kw("FROM"),
           Ident(IF self.Returning = "Profile" THEN Profile_TABLE_NAME ELSE TABLE_NAME)>>

select_clause(self) ==
    <<Kw("SELECT")>>
      \o JoinSep([j \in 1..Len(COLUMN_NAMES(self.Returning)) |->
                    <<Quoted(COLUMN_NAMES(self.Returning)[j])>>], <<Kw(",")>>)
      \o <<Kw("FROM"), Ident(TABLE_NAME)>>

where_clause(self, param_idx) ==
    IF self.filter_expr.kind = "Some" THEN
        LET w == build_with_offset(self.filter_expr.v, param_idx)
        IN  [sql |-> <<Kw("WHERE")>> \o w.sql, values |-> w.values, next |-> w.next]
    ELSE [sql |-> <<>>, values |-> <<>>, next |-> param_idx]

group_by_clause(self) ==
    IF Len(self.group_by) # 0 THEN
        <<Kw("GROUP BY")>>
          \o JoinSep([j \in 1..Len(self.group_by) |-> quoted_name(self.group_by[j])], <<Kw(",")>>)
    ELSE <<>>

order_by_clause(self) ==
    IF Len(self.order_by) # 0 THEN
        <<Kw("ORDER BY")>>
          \o JoinSep([j \in 1..Len(self.order_by) |->
                        quoted_name(self.order_by[j].field)
                          \o <<Kw(Order_to_sql(self.order_by[j].order))>>], <<Kw(",")>>)
    ELSE <<>>

limit_clause(self) ==
    IF self.limit.kind = "Some" THEN <<Kw("LIMIT"), Num(self.limit.v)>> ELSE <<>>

offset_clause(self) ==
    IF self.offset.kind = "Some" THEN <<Kw("OFFSET"), Num(self.offset.v)>> ELSE <<>>

\* build with OFFSET rendered before LIMIT
SelectBuilder_build_offset_first(self) ==
    LET joins == build_joins(self.joins, 1)
        where == where_clause(self, joins.next)
    IN  [kind |-> "Sql",
         sql |-> select_clause(self) \o joins.sql \o where.sql \o group_by_clause(self)
                   \o order_by_clause(self) \o offset_clause(self) \o limit_clause(self),
         values |-> joins.values \o where.values]

SelectBuilder_build(self) ==
    LET joins == build_joins(self.joins, 1)
        where == where_clause(self, joins.next)
    IN  [kind |-> "Sql",
         sql |-> select_clause(self) \o joins.sql \o where.sql \o group_by_clause(self)
                   \o order_by_clause(self) \o limit_clause(self) \o offset_clause(self),
         values |-> joins.values \o where.values]

\* ------------------------------------------ the SelectBuilder state machine
\* the history of limit (offset): the argument of the most recent call and
\* whether that call replaced a different argument
NeverSet == [last |-> None, replaced |-> FALSE]

SetAgain(h, n) == [last |-> Some(n), replaced |-> h.last # None /\ h.last # Some(n)]

SelInit ==
    /\ sel = SelectBuilder_new
    /\ sel_calls = [filters |-> <<>>, order_by |-> <<>>, limit |-> NeverSet, offset |-> NeverSet,
                    late_returning |-> FALSE]
    /\ sel_result = NoResult

Configuring == sel_result = NoResult

\* the configuration calls that left a trace in the builder
Calls ==
    Len(sel_calls.filters) + Len(sel.joins) + Len(sel.order_by) + Len(sel.group_by)
      + (IF sel.limit # None THEN 1 ELSE 0) + (IF sel.offset # None THEN 1 ELSE 0)
      + (IF sel.Returning # "TestUser" THEN 1 ELSE 0)

\* room for one more call that adds to the builder
MayAdd == Calls < MaxCalls

SelReturning ==
    /\ Configuring /\ (sel.Returning # "TestUser" \/ MayAdd)
    /\ \E R \in ReturningInputs : sel' = SelectBuilder_returning(sel, R)
    /\ sel_calls' = [sel_calls EXCEPT !.late_returning = @ \/ sel.filter_expr # None]
    /\ UNCHANGED <<sel_result, notSel>>

SelFilter ==
    /\ Configuring /\ MayAdd /\ Len(sel_calls.filters) < MaxFilterCalls
    /\ \E e \in FilterInputs :
         /\ sel' = SelectBuilder_filter(sel, e)
         /\ sel_calls' = [sel_calls EXCEPT !.filters = Append(@, e)]
    /\ UNCHANGED <<sel_result, notSel>>

SelOrderBy ==
    /\ Configuring /\ MayAdd /\ Len(sel.order_by) < MaxOrderBy
    /\ \E f \in OrderByInputs :
         /\ sel' = SelectBuilder_order_by(sel, f)
         /\ sel_calls' = [sel_calls EXCEPT !.order_by = Append(@, f)]
    /\ UNCHANGED <<sel_result, notSel>>

SelLimit ==
    /\ Configuring /\ (sel.limit # None \/ MayAdd)
    /\ \E n \in LimitInputs :
         /\ sel' = SelectBuilder_limit(sel, n)
         /\ sel_calls' = [sel_calls EXCEPT !.limit = SetAgain(@, n)]
    /\ UNCHANGED <<sel_result, notSel>>

SelOffset ==
    /\ Configuring /\ (sel.offset # None \/ MayAdd)
    /\ \E n \in OffsetInputs :
         /\ sel' = SelectBuilder_offset(sel, n)
         /\ sel_calls' = [sel_calls EXCEPT !.offset = SetAgain(@, n)]
    /\ UNCHANGED <<sel_result, notSel>>

SelGroupBy ==
    /\ Configuring /\ MayAdd /\ Len(sel.group_by) < MaxGroupBy
    /\ \E f \in GroupByInputs : sel' = SelectBuilder_group_by(sel, f)
    /\ UNCHANGED <<sel_calls, sel_result, notSel>>

SelJoin ==
    /\ Configuring /\ MayAdd /\ Len(sel.joins) < MaxJoins
    /\ sel' = SelectBuilder_join(sel, "Inner", "posts", JoinOnInner)
    /\ UNCHANGED <<sel_calls, sel_result, notSel>>

SelLeftJoin ==
    /\ Configuring /\ MayAdd /\ Len(sel.joins) < MaxJoins
    /\ sel' = SelectBuilder_join(sel, "Left", "posts", JoinOnLeft)
    /\ UNCHANGED <<sel_calls, sel_result, notSel>>

SelRightJoin ==
    /\ Configuring /\ MayAdd /\ Len(sel.joins) < MaxJoins
    /\ sel' = SelectBuilder_join(sel, "Right", "posts", JoinOnRight)
    /\ UNCHANGED <<sel_calls, sel_result, notSel>>

\* SelectBuilder::build consumes the builder; its fields stay readable here
SelBuild ==
    /\ Configuring
    /\ sel_result' = SelectBuilder_build(sel)
    /\ UNCHANGED <<sel, sel_calls, notSel>>

SelNext ==
    \/ SelReturning \/ SelFilter \/ SelOrderBy \/ SelLimit \/ SelOffset \/ SelGroupBy
    \/ SelJoin \/ SelLeftJoin \/ SelRightJoin \/ SelBuild

\* ------------------------------------------- SelectBuilder one/all/optional
MaxFetched == 2

Ok(v) == [kind |-> "Ok", v |-> v]

Err(e) == [kind |-> "Err", e |-> e]

\* a row the database returns: the entity it carries and whether the
\* Returning type's FromRow accepts it
RowInputs == {[id |-> v, decodes |-> TRUE] : v \in Vals} \cup {[id |-> 1, decodes |-> FALSE]}

RowLists == UNION {[1..n -> RowInputs] : n \in 0..MaxFetched}

\* what the database answers to a query: its rows in order, or an error
QueryAnswers == {[kind |-> "Rows", rows |-> rs] : rs \in RowLists} \cup {[kind |-> "DbErr"]}

\* FromRow::from_row of the Returning type
from_row(row) == IF row.decodes THEN Ok(row.id) ELSE Err("Decode")

\* sqlx fetch_optional: the first row of the answer, if there is one
fetch_optional(answer) ==
    IF answer.kind = "DbErr" THEN Err("Database")
    ELSE IF Len(answer.rows) = 0 THEN Ok(None)
    ELSE LET r == from_row(answer.rows[1])
         IN  IF r.kind = "Ok" THEN Ok(Some(r.v)) ELSE r

\* sqlx fetch_one: the first row of the answer, RowNotFound if there is none
fetch_one(answer) ==
    IF answer.kind = "DbErr" THEN Err("Database")
    ELSE IF Len(answer.rows) = 0 THEN Err("RowNotFound")
    ELSE from_row(answer.rows[1])

\* sqlx fetch_all: every row decoded, the first decode failure propagated
fetch_all(answer) ==
    IF answer.kind = "DbErr" THEN Err("Database")
    ELSE IF \E j \in 1..Len(answer.rows) : ~answer.rows[j].decodes THEN Err("Decode")
    ELSE Ok([j \in 1..Len(answer.rows) |-> answer.rows[j].id])

Fetched(self, op, answer, out) ==
    [kind |-> "Fetched", op |-> op, sql |-> SelectBuilder_build(self).sql,
     values |-> SelectBuilder_build(self).values, answer |-> answer, out |-> out]

SelectBuilder_one(self, answer) == Fetched(self, "one", answer, fetch_one(answer))

SelectBuilder_all(self, answer) == Fetched(self, "all", answer, fetch_all(answer))

SelectBuilder_optional(self, answer) == Fetched(self, "optional", answer, fetch_optional(answer))

SelOne ==
    /\ Configuring
    /\ \E a \in QueryAnswers : sel_result' = SelectBuilder_one(sel, a)
    /\ UNCHANGED <<sel, sel_calls, notSel>>

SelAll ==
    /\ Configuring
    /\ \E a \in QueryAnswers : sel_result' = SelectBuilder_all(sel, a)
    /\ UNCHANGED <<sel, sel_calls, notSel>>

SelOptional ==
    /\ Configuring
    /\ \E a \in QueryAnswers : sel_result' = SelectBuilder_optional(sel, a)
    /\ UNCHANGED <<sel, sel_calls, notSel>>

\* the terminal operations of a SelectBuilder configured by filter and limit
FetchNext == SelFilter \/ SelLimit \/ SelOne \/ SelAll \/ SelOptional

\* ------------------------------------------------------------- Executor
MaxAffected == 1

\* what Executor::execute can return: Ok(row count) or Err
ExecuteOutcomes == {[kind |-> "Ok", v |-> n] : n \in 0..MaxAffected} \cup {[kind |-> "Err"]}

\* Value::to_tokio_sql_param: Ok(self.0)
to_tokio_sql_param(v) == v

\* PreparedParams::new(values).as_params()
as_params(values) == [j \in 1..Len(values) |-> to_tokio_sql_param(values[j])]

ExecutorCall(method, sql, params) == [method |-> method, sql |-> sql, params |-> params]

\* -------------------------------------------------------- UpdateBuilder
MaxSet == 2

SetInputs == {<<name_field, 1>>, <<email_field, 2>>}

UpdateBuilder_new ==
    [kind |-> "Builder", updates |-> <<>>, filter_expr |-> None,
     SET_CALLED |-> FALSE, FILTER_CALLED |-> FALSE,
     set_calls |-> 0, filter_calls |-> 0, calls |-> <<>>]

\* one call of the builder, kept in call order
SetCall(field, value) == [op |-> "set", field |-> field, value |-> value]
FilterCall(e) == [op |-> "filter", e |-> e]

\* set that forgets the filter given so far
UpdateBuilder_set_drops_filter(self, field, value) ==
    [self EXCEPT !.updates = Append(@, <<field, value>>),
                 !.filter_expr = None,
                 !.SET_CALLED = TRUE,
                 !.set_calls = @ + 1,
                 !.calls = Append(@, SetCall(field, value))]

UpdateBuilder_set(self, field, value) ==
    [self EXCEPT !.updates = Append(@, <<field, value>>),
                 !.SET_CALLED = TRUE,
                 !.set_calls = @ + 1,
                 !.calls = Append(@, SetCall(field, value))]

\* filter returning UpdateBuilder<T, true, true>
UpdateBuilder_filter_marks_set(self, e) ==
    [self EXCEPT !.filter_expr =
                    IF self.filter_expr.kind = "Some" THEN Some(bitand(self.filter_expr.v, e))
                    ELSE Some(e),
                 !.SET_CALLED = TRUE,
                 !.FILTER_CALLED = TRUE,
                 !.filter_calls = @ + 1,
                 !.calls = Append(@, FilterCall(e))]

UpdateBuilder_filter(self, e) ==
    [self EXCEPT !.filter_expr =
                    IF self.filter_expr.kind = "Some" THEN Some(bitand(self.filter_expr.v, e))
                    ELSE Some(e),
                 !.FILTER_CALLED = TRUE,
                 !.filter_calls = @ + 1,
                 !.calls = Append(@, FilterCall(e))]

\* build and execute exist only on UpdateBuilder<T, true, true>
UpdateBuilder_terminal(self) == self.SET_CALLED /\ self.FILTER_CALLED

UpdateBuilder_build(self) ==
    LET k == Len(self.updates)
        set_sql == JoinSep([i \in 1..k |->
                              <<Quoted(self.updates[i][1].name), Kw("="), Param(i)>>], <<Kw(",")>>)
        set_values == [i \in 1..k |-> self.updates[i][2]]
        w == IF self.filter_expr.kind = "Some"
             THEN build_with_offset(self.filter_expr.v, k + 1)
             ELSE [sql |-> <<>>, values |-> <<>>, next |-> k + 1]
    IN  [kind |-> "Sql",
         sql |-> <<Kw("UPDATE"), Ident(TABLE_NAME), Kw("SET")>> \o set_sql
                   \o (IF self.filter_expr.kind = "Some" THEN <<Kw("WHERE")>> \o w.sql ELSE <<>>),
         values |-> set_values \o w.values]

UpdNew ==
    /\ upd = None
    /\ upd' = UpdateBuilder_new
    /\ UNCHANGED <<upd_result, executor_calls, notUpd>>

UpdConfiguring == upd # None /\ upd_result = NoResult

UpdSet ==
    /\ UpdConfiguring /\ upd.set_calls < MaxSet
    /\ \E a \in SetInputs : upd' = UpdateBuilder_set(upd, a[1], a[2])
    /\ UNCHANGED <<upd_result, executor_calls, notUpd>>

UpdFilter ==
    /\ UpdConfiguring /\ upd.filter_calls < MaxFilterCalls
    /\ \E e \in FilterInputs : upd' = UpdateBuilder_filter(upd, e)
    /\ UNCHANGED <<upd_result, executor_calls, notUpd>>

UpdBuild ==
    /\ UpdConfiguring /\ UpdateBuilder_terminal(upd)
    /\ upd_result' = UpdateBuilder_build(upd)
    /\ UNCHANGED <<upd, executor_calls, notUpd>>

UpdExecute ==
    /\ UpdConfiguring /\ UpdateBuilder_terminal(upd)
    /\ LET sql_result == UpdateBuilder_build(upd)
       IN  /\ executor_calls' =
                Append(executor_calls,
                       ExecutorCall("execute", sql_result.sql, as_params(sql_result.values)))
           /\ \E out \in ExecuteOutcomes : upd_result' = out
    /\ UNCHANGED <<upd, notUpd>>

UpdNext == UpdNew \/ UpdSet \/ UpdFilter \/ UpdBuild \/ UpdExecute

\* -------------------------------------------------------- DeleteBuilder
\* DeleteBuilder::<T, FILTER_SET>::new() / default(), for the FILTER_SET the
\* caller names
DeleteBuilder_new(FILTER_SET) ==
    [kind |-> "Builder", filter_expr |-> None, FILTER_SET |-> FILTER_SET, filter_calls |-> 0]

DeleteBuilder_filter(self, e) ==
    [self EXCEPT !.filter_expr =
                    IF self.filter_expr.kind = "Some" THEN Some(bitand(self.filter_expr.v, e))
                    ELSE Some(e),
                 !.FILTER_SET = TRUE,
                 !.filter_calls = @ + 1]

\* the filters of the delete tests, and pk = value as delete_by_pk passes it
DeleteFilterInputs == FilterInputs \cup {field_compare(id_field, "Eq", v) : v \in Vals}

\* build and execute exist only on DeleteBuilder<T, true>
DeleteBuilder_terminal(self) == self.FILTER_SET

DeleteBuilder_build(self) ==
    LET w == IF self.filter_expr.kind = "Some"
             THEN build_internal(self.filter_expr.v, 1)
             ELSE [sql |-> <<>>, values |-> <<>>, next |-> 1]
    IN  [kind |-> "Sql",
         sql |-> <<Kw("DELETE FROM"), Ident(TABLE_NAME)>>
                   \o (IF self.filter_expr.kind = "Some" THEN <<Kw("WHERE")>> \o w.sql ELSE <<>>),
         values |-> w.values]

\* Domain::delete() names FILTER_SET = false; DeleteBuilder::<T, B>::new() any B
DelNew ==
    /\ del = None
    /\ \E FILTER_SET \in BOOLEAN : del' = DeleteBuilder_new(FILTER_SET)
    /\ UNCHANGED <<del_result, executor_calls, notDel>>

DelConfiguring == del # None /\ del_result = NoResult

DelFilter ==
    /\ DelConfiguring /\ del.filter_calls < MaxFilterCalls
    /\ \E e \in DeleteFilterInputs : del' = DeleteBuilder_filter(del, e)
    /\ UNCHANGED <<del_result, executor_calls, notDel>>

DelBuild ==
    /\ DelConfiguring /\ DeleteBuilder_terminal(del)
    /\ del_result' = DeleteBuilder_build(del)
    /\ UNCHANGED <<del, executor_calls, notDel>>

DelExecute ==
    /\ DelConfiguring /\ DeleteBuilder_terminal(del)
    /\ LET sql_result == DeleteBuilder_build(del)
       IN  /\ executor_calls' =
                Append(executor_calls,
                       ExecutorCall("execute", sql_result.sql, as_params(sql_result.values)))
           /\ \E out \in ExecuteOutcomes : del_result' = out
    /\ UNCHANGED <<del, notDel>>

DelNext == DelNew \/ DelFilter \/ DelBuild \/ DelExecute

\* ------------------------------------------------------------ Creatable
MaxRows == 2
MaxFields == 2

\* the field names of the payload struct, in declaration order
CreatableFields(fields_len) == SubSeq(<<"name", "email", "age">>, 1, fields_len)

\* get_columns: ("f1","f2",...)
get_columns(fields_len) ==
    <<Kw("(")>>
      \o JoinSep([i \in 1..fields_len |-> <<Quoted(CreatableFields(fields_len)[i])>>], <<Kw(",")>>)
      \o <<Kw(")")>>

\* every row numbered from $1, the row offset forgotten
get_batch_insert_sql_no_offset(fields_len, idx) ==
    <<Kw("(")>>
      \o JoinSep([i \in 1..fields_len |-> <<Param((i - 1) + 1)>>], <<Kw(",")>>)
      \o <<Kw(")")>>

\* get_batch_insert_sql(idx): the placeholder tuple of row idx (0-based)
get_batch_insert_sql(fields_len, idx) ==
    <<Kw("(")>>
      \o JoinSep([i \in 1..fields_len |-> <<Param(idx * fields_len + (i - 1) + 1)>>], <<Kw(",")>>)
      \o <<Kw(")")>>

\* get_batch_values(idx): the payload's field values in declaration order
get_batch_values(item, idx) == item

\* payload lists: up to MaxRows rows of fields_len values each
PayloadLists(fields_len) == UNION {[1..n -> [1..fields_len -> Vals]] : n \in 0..MaxRows}

\* ---------------------------------------------------- InsertManyBuilder
InsertManyBuilder_new(data, fields_len) ==
    [kind |-> "Builder", data |-> data, fields_len |-> fields_len]

build_values_sql(self) ==
    JoinSep([r \in 1..Len(self.data) |-> get_batch_insert_sql(self.fields_len, r - 1)],
            <<Kw(",")>>)

returning_columns == JoinSep([j \in 1..Len(COLUMN_NAMES("TestUser")) |->
                                <<Quoted(COLUMN_NAMES("TestUser")[j])>>], <<Kw(",")>>)

\* the `for (idx, item) in self.data.iter().enumerate()` loop
all_values(self) ==
    Flat([r \in 1..Len(self.data) |-> get_batch_values(self.data[r], r - 1)])

insert_sql(self, returning) ==
    <<Kw("INSERT INTO"), Ident(TABLE_NAME)>> \o get_columns(self.fields_len)
      \o <<Kw("VALUES")>> \o build_values_sql(self) \o returning

\* what Executor::query can return: Ok(rows) or Err; a row is its number
QueryOutcomes == {[kind |-> "Ok", v |-> [j \in 1..n |-> j]] : n \in 0..MaxRows} \cup {[kind |-> "Err"]}

\* a terminal operation of InsertManyBuilder: the statement it formats, the
\* executor call it makes and what it returns, given what the executor and the
\* row decoding answer
InsertManyBuilder_returning_pk(self, out, decode_ok) ==
    IF Len(self.data) = 0 THEN
        [sql |-> None, calls |-> <<>>, result |-> [kind |-> "Ok", v |-> <<>>]]
    ELSE
        LET sql == insert_sql(self, <<Kw("RETURNING"), Quoted(PK_FIELD_NAME)>>)
        IN  [sql |-> Some(sql),
             calls |-> <<ExecutorCall("query", sql, as_params(all_values(self)))>>,
             result |-> IF out.kind = "Ok" /\ ~decode_ok /\ Len(out.v) > 0
                        THEN [kind |-> "Err"] ELSE out]

InsertManyBuilder_returning_entity(self, out, decode_ok) ==
    IF Len(self.data) = 0 THEN
        [sql |-> None, calls |-> <<>>, result |-> [kind |-> "Ok", v |-> <<>>]]
    ELSE
        LET sql == insert_sql(self, <<Kw("RETURNING")>> \o returning_columns)
        IN  [sql |-> Some(sql),
             calls |-> <<ExecutorCall("query", sql, as_params(all_values(self)))>>,
             result |-> IF out.kind = "Ok" /\ ~decode_ok /\ Len(out.v) > 0
                        THEN [kind |-> "Err"] ELSE out]

\* execute without the is_empty early return
InsertManyBuilder_execute_unguarded(self, out) ==
    LET sql == insert_sql(self, <<>>)
    IN  [sql |-> Some(sql),
         calls |-> <<ExecutorCall("execute", sql, as_params(all_values(self)))>>,
         result |-> out]

InsertManyBuilder_execute(self, out) ==
    IF Len(self.data) = 0 THEN
        [sql |-> None, calls |-> <<>>, result |-> [kind |-> "Ok", v |-> 0]]
    ELSE
        LET sql == insert_sql(self, <<>>)
        IN  [sql |-> Some(sql),
             calls |-> <<ExecutorCall("execute", sql, as_params(all_values(self)))>>,
             result |-> out]

InsNew ==
    /\ ins = None
    /\ \E fields_len \in 0..MaxFields :
         \E data \in PayloadLists(fields_len) : ins' = InsertManyBuilder_new(data, fields_len)
    /\ UNCHANGED <<ins_sql, ins_result, executor_calls, notIns>>

InsPending == ins # None /\ ins_result = NoResult

InsApply(op, r) ==
    /\ ins_sql' = r.sql
    /\ executor_calls' = executor_calls \o r.calls
    /\ ins_result' = [op |-> op, ret |-> r.result]
    /\ UNCHANGED <<ins, notIns>>

InsReturningPk ==
    /\ InsPending
    /\ \E out \in QueryOutcomes, decode_ok \in BOOLEAN :
         InsApply("returning_pk", InsertManyBuilder_returning_pk(ins, out, decode_ok))

InsReturningEntity ==
    /\ InsPending
    /\ \E out \in QueryOutcomes, decode_ok \in BOOLEAN :
         InsApply("returning_entity", InsertManyBuilder_returning_entity(ins, out, decode_ok))

InsExecute ==
    /\ InsPending
    /\ \E out \in ExecuteOutcomes :
         InsApply("execute", InsertManyBuilder_execute(ins, out))

InsNext == InsNew \/ InsReturningPk \/ InsReturningEntity \/ InsExecute


\* ---------------------------------------------------------- specifications
\* --------------------------------------------------------------- Migrator
MaxVersion == 2
MaxMigrations == 2

Versions == 1..MaxVersion

\* the SQL texts of the migration files
SqlTexts == {"a", "b"}

\* Sha256::digest of a text: different texts, different digests
Sha256(sql) == <<"sha256", sql>>

\* a migration whose checksum does not follow its text
Migration_new_fixed_checksum(version, description, sql) ==
    [version |-> version, description |-> description, sql |-> sql, checksum |-> Sha256("a")]

Migration_new(version, description, sql) ==
    [version |-> version, description |-> description, sql |-> sql, checksum |-> Sha256(sql)]

MigrationInputs == {Migration_new(v, "m", t) : v \in Versions, t \in SqlTexts}

Migrator_new == [migrations |-> <<>>, locking |-> TRUE, ignore_missing |-> FALSE]

\* a migration placed behind the last entry whose version is not above its own
InsertStable(sorted, m) ==
    LET le == {j \in 1..Len(sorted) : sorted[j].version <= m.version}
        at == IF le = {} THEN 0 ELSE CHOOSE j \in le : \A k \in le : k <= j
    IN  SubSeq(sorted, 1, at) \o <<m>> \o SubSeq(sorted, at + 1, Len(sorted))

RECURSIVE sort_by_key(_)
\* Vec::sort_by_key(|m| m.version): a stable sort
sort_by_key(ms) ==
    IF Len(ms) = 0 THEN <<>>
    ELSE InsertStable(sort_by_key(SubSeq(ms, 1, Len(ms) - 1)), ms[Len(ms)])

\* add_migration without the sort
Migrator_add_migration_unsorted(self, migration) ==
    [self EXCEPT !.migrations = Append(@, migration)]

Migrator_add_migration(self, migration) ==
    [self EXCEPT !.migrations = sort_by_key(Append(@, migration))]

Migrator_set_locking(self, locking) == [self EXCEPT !.locking = locking]

Migrator_set_ignore_missing(self, ignore) == [self EXCEPT !.ignore_missing = ignore]

\* a row of _conservator_migrations; version is the primary key
MigrationRecord(version, checksum, success) ==
    [version |-> version, checksum |-> checksum, success |-> success]

\* what one version can have on record before the first run: a successful
\* record of either text, or a dirty one
RecordInputs(v) ==
    {MigrationRecord(v, Sha256(t), TRUE) : t \in SqlTexts}
      \cup {MigrationRecord(v, Sha256("a"), FALSE)}

\* the databases a connection can lead to: at most one record per version
Databases ==
    {d \in SUBSET (UNION {RecordInputs(v) : v \in Versions}) :
        \A r1 \in d, r2 \in d : r1.version = r2.version => r1 = r2}

MigrateError(type, version) == [type |-> type, version |-> version]

MigrateReport(skipped, applied) == [skipped |-> skipped, applied |-> applied]

AppliedInfo(migration) == [version |-> migration.version, description |-> migration.description]

Least(S) == CHOOSE v \in S : \A w \in S : v <= w

\* one call received by the database during a run
Locked == [op |-> "lock"]
Unlocked == [op |-> "unlock"]
TableEnsured == [op |-> "ensure_migrations_table"]
DirtySelected == [op |-> "select_dirty"]
AppliedSelected == [op |-> "select_applied"]
Begun == [op |-> "begin"]
Inserted(version) == [op |-> "insert", version |-> version]
BatchExecuted(version) == [op |-> "batch_execute", version |-> version]
Updated(version) == [op |-> "update", version |-> version]
Committed == [op |-> "commit"]
RolledBack == [op |-> "rollback"]

\* the steps of apply_migration that the database can reject
ApplySteps == {"insert", "batch_execute", "update", "commit"}

\* at most one statement fails in a run, which ends at its first error
NoFailure == [version |-> 0, step |-> "none"]
FailurePoints == {NoFailure} \cup {[version |-> v, step |-> s] : v \in Versions, s \in ApplySteps}

\* a transaction dropped without commit keeps what it wrote
drop_transaction_keeps(records, written) == written

\* a transaction dropped without commit is rolled back: the records are as
\* they were at begin
drop_transaction(records, written) == records

\* apply_migration that leaves no record behind
apply_migration_unrecorded(records, migration, fails) ==
    [result |-> Ok(AppliedInfo(migration)), db |-> records,
     log |-> <<Begun, Inserted(migration.version), BatchExecuted(migration.version),
               Updated(migration.version), Committed>>]

\* apply_migration in its transaction: the record is inserted with
\* success = false, the migration SQL executed, the record marked successful,
\* the transaction committed; fails is the step the database rejects ("none"
\* when it rejects none), and an error drops the transaction
apply_migration(records, migration, fails) ==
    LET v == migration.version
        failure == Err(MigrateError("Database", 0))
        tx1 == records \cup {MigrationRecord(v, migration.checksum, FALSE)}
        tx2 == (tx1 \ {MigrationRecord(v, migration.checksum, FALSE)})
                  \cup {MigrationRecord(v, migration.checksum, TRUE)}
    IN  IF fails = "insert" \/ \E r \in records : r.version = v
        THEN [result |-> failure, db |-> drop_transaction(records, records),
              log |-> <<Begun, Inserted(v), RolledBack>>]
        ELSE IF fails = "batch_execute"
        THEN [result |-> failure, db |-> drop_transaction(records, tx1),
              log |-> <<Begun, Inserted(v), BatchExecuted(v), RolledBack>>]
        ELSE IF fails = "update"
        THEN [result |-> failure, db |-> drop_transaction(records, tx1),
              log |-> <<Begun, Inserted(v), BatchExecuted(v), Updated(v), RolledBack>>]
        ELSE IF fails = "commit"
        THEN [result |-> failure, db |-> drop_transaction(records, tx2),
              log |-> <<Begun, Inserted(v), BatchExecuted(v), Updated(v), Committed>>]
        ELSE [result |-> Ok(AppliedInfo(migration)), db |-> tx2,
              log |-> <<Begun, Inserted(v), BatchExecuted(v), Updated(v), Committed>>]

\* the () of Result<(), MigrateError>
Unit == <<>>

RECURSIVE run_loop(_, _, _, _, _)
\* the loop of run_internal from the i-th source migration on; applied_map is
\* the table as read before the loop, st the database, report and log so far
run_loop(self, applied_map, failing, i, st) ==
    IF i > Len(self.migrations) THEN [st EXCEPT !.result = Ok(Unit)]
    ELSE LET migration == self.migrations[i]
             on_record == {r \in applied_map : r.version = migration.version}
         IN  IF on_record # {}
             THEN IF \E r \in on_record : r.checksum # migration.checksum
                  THEN [st EXCEPT !.result = Err(MigrateError("ChecksumMismatch", migration.version))]
                  ELSE run_loop(self, applied_map, failing, i + 1,
                                [st EXCEPT !.report.skipped = @ + 1])
             ELSE LET a == apply_migration(st.db, migration,
                                          IF failing.version = migration.version
                                          THEN failing.step ELSE "none")
                  IN  IF a.result.kind = "Ok"
                      THEN run_loop(self, applied_map, failing, i + 1,
                                    [st EXCEPT !.db = a.db, !.log = @ \o a.log,
                                               !.report.applied = Append(@, a.result.v)])
                      ELSE [st EXCEPT !.result = a.result, !.db = a.db, !.log = @ \o a.log,
                                      !.failed = migration.version]

\* run_internal without the check for missing sources
Migrator_run_internal_keeps_going(self, records, failing, pick) ==
    LET st1 == [result |-> None, db |-> records,
                log |-> <<TableEnsured, DirtySelected, AppliedSelected>>,
                failed |-> 0, report |-> MigrateReport(0, <<>>)]
        dirty == {r.version : r \in {x \in records : ~x.success}}
    IN  IF dirty # {}
        THEN [st1 EXCEPT !.result = Err(MigrateError("Dirty", Least(dirty)))]
        ELSE run_loop(self, {r \in records : r.success}, failing, 1, st1)

\* run_internal on the records behind the connection; failing is the
\* statement the database rejects, pick the key of applied_map that the
\* iteration over the map reaches first among those without a source
Migrator_run_internal(self, records, failing, pick) ==
    LET st0 == [result |-> None, db |-> records, log |-> <<TableEnsured, DirtySelected>>,
                failed |-> 0, report |-> MigrateReport(0, <<>>)]
        st1 == [st0 EXCEPT !.log = @ \o <<AppliedSelected>>]
        dirty == {r.version : r \in {x \in records : ~x.success}}
        applied_map == {r \in records : r.success}
        source == {self.migrations[i].version : i \in 1..Len(self.migrations)}
    IN  IF dirty # {}
        THEN [st0 EXCEPT !.result = Err(MigrateError("Dirty", Least(dirty)))]
        ELSE IF ~self.ignore_missing /\ pick \in {r.version : r \in applied_map} \ source
        THEN [st1 EXCEPT !.result = Err(MigrateError("MissingSource", pick))]
        ELSE run_loop(self, applied_map, failing, 1, st1)

\* the versions on record as applied that the source does not have
Missing(self, records) ==
    {r.version : r \in {x \in records : x.success}}
      \ {self.migrations[i].version : i \in 1..Len(self.migrations)}

\* run that returns the error of run_internal before it unlocks
Migrator_run_unlocks_on_success(self, records, failing, pick) ==
    LET r == Migrator_run_internal(self, records, failing, pick)
    IN  [db_before |-> records,
         internal |-> r.result,
         result |-> IF r.result.kind = "Ok" THEN Ok(r.report) ELSE r.result,
         failed |-> r.failed,
         log |-> IF self.locking
                 THEN <<Locked>> \o r.log \o (IF r.result.kind = "Ok" THEN <<Unlocked>> ELSE <<>>)
                 ELSE r.log,
         db_after |-> r.db]

\* Migrator::run: lock when locking is on, run_internal, unlock in either
\* case, then the error of run_internal or the report it filled
Migrator_run(self, records, failing, pick) ==
    LET r == Migrator_run_internal(self, records, failing, pick)
    IN  [db_before |-> records,
         internal |-> r.result,
         result |-> IF r.result.kind = "Ok" THEN Ok(r.report) ELSE r.result,
         failed |-> r.failed,
         log |-> IF self.locking THEN <<Locked>> \o r.log \o <<Unlocked>> ELSE r.log,
         db_after |-> r.db]

MigInit ==
    /\ mig = Migrator_new
    /\ added_late = FALSE
    /\ db = {}
    /\ runs = <<>>

\* the migrator is set up before its first run
MigAdd ==
    /\ runs = <<>>
    /\ Len(mig.migrations) < MaxMigrations
    /\ \E m \in MigrationInputs :
        /\ mig' = Migrator_add_migration(mig, m)
        /\ added_late' = (added_late \/ \E i \in 1..Len(mig.migrations) :
                                            mig.migrations[i].version > m.version)
    /\ UNCHANGED <<db, runs, notMig>>

MigSetLocking ==
    /\ runs = <<>>
    /\ \E b \in BOOLEAN : b # mig.locking /\ mig' = Migrator_set_locking(mig, b)
    /\ UNCHANGED <<added_late, db, runs, notMig>>

MigSetIgnoreMissing ==
    /\ runs = <<>>
    /\ \E b \in BOOLEAN : b # mig.ignore_missing /\ mig' = Migrator_set_ignore_missing(mig, b)
    /\ UNCHANGED <<added_late, db, runs, notMig>>

\* run(conn): the first run meets whatever database the connection leads to
MigRun ==
    \E records \in (IF runs = <<>> THEN Databases ELSE {db}),
       failing \in FailurePoints :
        \E pick \in (IF Missing(mig, records) = {} THEN {0} ELSE Missing(mig, records)) :
            LET r == Migrator_run(mig, records, failing, pick)
            IN  /\ runs' = (IF Len(runs) < 2 THEN Append(runs, r) ELSE <<runs[2], r>>)
                /\ db' = r.db_after
                /\ UNCHANGED <<mig, added_late, notMig>>

MigNext == MigAdd \/ MigSetLocking \/ MigSetIgnoreMissing \/ MigRun

\* ------------------------------------------------- concurrent Migrator runs
MaxRunners == 2

Runners == 1..MaxRunners

\* the source list every concurrent migrator was given
SharedSource == sort_by_key(<<Migration_new(2, "m", "a"), Migration_new(1, "m", "a")>>)

\* a session-level advisory lock that any number of sessions can hold
pg_advisory_lock_shared(holder, session) == TRUE

\* SELECT pg_advisory_lock(id) returns once no other session holds the lock
pg_advisory_lock(holder, session) == holder = 0

\* a Migrator::run that has not started yet
Runner_new ==
    [pc |-> "new", locking |-> TRUE, applied_map |-> {}, i |-> 0, writing |-> 0,
     report |-> MigrateReport(0, <<>>), result |-> None]

ConInit ==
    /\ runners = [p \in Runners |-> Runner_new]
    /\ pg = [records |-> {}, holder |-> 0, order |-> <<>>,
             sql_count |-> [v \in {SharedSource[i].version : i \in 1..Len(SharedSource)} |-> 0]]

\* the part of run between lock and unlock
InInternal(p) ==
    runners[p].pc \in {"dirty", "applied", "loop", "insert", "batch_execute", "update", "commit"}

ConSetLocking ==
    \E p \in Runners :
        /\ runners[p].pc = "new"
        /\ runners[p].locking
        /\ runners' = [runners EXCEPT ![p].locking = FALSE]
        /\ UNCHANGED <<pg, notCon>>

\* run: lock when locking is on, blocking while another session holds it
ConLock ==
    \E p \in Runners :
        /\ runners[p].pc = "new"
        /\ runners[p].locking => pg_advisory_lock(pg.holder, p)
        /\ runners' = [runners EXCEPT ![p].pc = "dirty"]
        /\ pg' = [pg EXCEPT !.holder = IF runners[p].locking THEN p ELSE @,
                            !.order = Append(@, p)]
        /\ UNCHANGED notCon

\* run_internal: the table is ensured and the dirty record looked for
ConSelectDirty ==
    \E p \in Runners :
        /\ runners[p].pc = "dirty"
        /\ LET dirty == {r.version : r \in {x \in pg.records : ~x.success}}
           IN  runners' =
                 IF dirty # {}
                 THEN [runners EXCEPT ![p].pc = "unlock",
                                      ![p].result = Err(MigrateError("Dirty", Least(dirty)))]
                 ELSE [runners EXCEPT ![p].pc = "applied"]
        /\ UNCHANGED <<pg, notCon>>

\* run_internal: the applied records are read; the check for missing sources
ConSelectApplied ==
    \E p \in Runners :
        /\ runners[p].pc = "applied"
        /\ LET applied_map == {r \in pg.records : r.success}
               missing == {r.version : r \in applied_map}
                            \ {SharedSource[i].version : i \in 1..Len(SharedSource)}
           IN  runners' =
                 IF missing # {}
                 THEN [runners EXCEPT ![p].pc = "unlock",
                                      ![p].result = Err(MigrateError("MissingSource", Least(missing)))]
                 ELSE [runners EXCEPT ![p].pc = "loop", ![p].i = 1,
                                      ![p].applied_map = applied_map]
        /\ UNCHANGED <<pg, notCon>>

\* run_internal: one turn of the loop up to the skip or the start of
\* apply_migration
ConLoop ==
    \E p \in Runners :
        /\ runners[p].pc = "loop"
        /\ LET me == runners[p]
           IN  runners' =
                 IF me.i > Len(SharedSource)
                 THEN [runners EXCEPT ![p].pc = "unlock", ![p].result = Ok(me.report)]
                 ELSE LET migration == SharedSource[me.i]
                          on_record == {r \in me.applied_map : r.version = migration.version}
                      IN  IF on_record = {}
                          THEN [runners EXCEPT ![p].pc = "insert"]
                          ELSE IF \E r \in on_record : r.checksum # migration.checksum
                          THEN [runners EXCEPT
                                  ![p].pc = "unlock",
                                  ![p].result = Err(MigrateError("ChecksumMismatch", migration.version))]
                          ELSE [runners EXCEPT ![p].i = @ + 1, ![p].report.skipped = @ + 1]
        /\ UNCHANGED <<pg, notCon>>

\* apply_migration: begin and insert of the record; the insert waits for an
\* open transaction that inserted the same version, and fails on a
\* committed record of it
ConInsert ==
    \E p \in Runners :
        /\ runners[p].pc = "insert"
        /\ LET v == SharedSource[runners[p].i].version
           IN  /\ \A q \in Runners \ {p} : runners[q].writing # v
               /\ runners' =
                    IF \E r \in pg.records : r.version = v
                    THEN [runners EXCEPT ![p].pc = "unlock",
                                         ![p].result = Err(MigrateError("Database", 0))]
                    ELSE [runners EXCEPT ![p].pc = "batch_execute", ![p].writing = v]
        /\ UNCHANGED <<pg, notCon>>

\* apply_migration: the migration SQL
ConBatchExecute ==
    \E p \in Runners :
        /\ runners[p].pc = "batch_execute"
        /\ pg' = [pg EXCEPT !.sql_count[runners[p].writing] = @ + 1]
        /\ runners' = [runners EXCEPT ![p].pc = "update"]
        /\ UNCHANGED notCon

\* apply_migration: the record marked successful, inside the transaction
ConUpdate ==
    \E p \in Runners :
        /\ runners[p].pc = "update"
        /\ runners' = [runners EXCEPT ![p].pc = "commit"]
        /\ UNCHANGED <<pg, notCon>>

\* apply_migration: commit; run_internal pushes the AppliedInfo
ConCommit ==
    \E p \in Runners :
        /\ runners[p].pc = "commit"
        /\ LET migration == SharedSource[runners[p].i]
           IN  /\ pg' = [pg EXCEPT !.records =
                            @ \cup {MigrationRecord(migration.version, migration.checksum, TRUE)}]
               /\ runners' = [runners EXCEPT ![p].pc = "loop", ![p].writing = 0,
                                             ![p].i = @ + 1,
                                             ![p].report.applied = Append(@, AppliedInfo(migration))]
        /\ UNCHANGED notCon

\* run: unlock when locking is on, then the result
ConUnlock ==
    \E p \in Runners :
        /\ runners[p].pc = "unlock"
        /\ runners' = [runners EXCEPT ![p].pc = "done"]
        /\ pg' = [pg EXCEPT !.holder = IF runners[p].locking /\ @ = p THEN 0 ELSE @]
        /\ UNCHANGED notCon

ConNext ==
    \/ ConSetLocking \/ ConLock \/ ConSelectDirty \/ ConSelectApplied \/ ConLoop
    \/ ConInsert \/ ConBatchExecute \/ ConUpdate \/ ConCommit \/ ConUnlock

\* ------------------------------------------------------ SqlType decoding
MaxOption == 2

\* the types given SqlType by impl_sql_type! and by derive(TextEnum)
BaseTypes == {"i32", "i64", "String", "bool", "TextEnum"}

BaseType(name) == [kind |-> "Base", name |-> name]
OptionOf(T) == [kind |-> "Option", of |-> T]

RECURSIVE TypesUpTo(_)
\* T, Option<T>, Option<Option<T>>, ... up to the given depth
TypesUpTo(depth) ==
    IF depth = 0 THEN {BaseType(n) : n \in BaseTypes}
    ELSE TypesUpTo(depth - 1) \cup {OptionOf(T) : T \in TypesUpTo(depth - 1)}

\* a cell of a row: the column's PostgreSQL type and its raw value, or NULL
SqlNull == "NULL"
Cell(pgty, raw) == [pg |-> pgty, raw |-> raw]

Cells ==
    {Cell(pgty, SqlNull) : pgty \in {"INT4", "INT8", "TEXT", "BOOL"}}
      \cup {Cell("INT4", "1"), Cell("INT4", "2"), Cell("INT8", "1"),
            Cell("TEXT", "active"), Cell("TEXT", "bogus"), Cell("BOOL", "t")}

\* the strings derive(TextEnum) generated arms for
TextEnumValues == {"active"}

RECURSIVE accepts(_, _)
accepts(T, pgty) ==
    IF T.kind = "Option" THEN accepts(T.of, pgty)
    ELSE CASE T.name = "i32" -> pgty = "INT4"
           [] T.name = "i64" -> pgty = "INT8"
           [] T.name = "bool" -> pgty = "BOOL"
           [] OTHER -> pgty = "TEXT"

\* a value of a base type, read from the raw bytes
Decoded(raw) == [kind |-> "Value", raw |-> raw]

RECURSIVE from_sql_value(_, _)
\* SqlType::from_sql_value on a present value
from_sql_value(T, raw) ==
    IF T.kind = "Option"
    THEN LET inner == from_sql_value(T.of, raw)
         IN  IF inner.kind = "Ok" THEN Ok(Some(inner.v)) ELSE inner
    ELSE IF T.name = "TextEnum" /\ raw \notin TextEnumValues
    THEN Err("invalid value")
    ELSE Ok(Decoded(raw))

\* from_sql_null_value that answers NULL with a value of the type
from_sql_null_value_defaults(T) == IF T.kind = "Option" THEN Ok(None) ELSE Ok(Decoded(""))

\* SqlType::from_sql_null_value: an error unless the type is an Option
from_sql_null_value(T) ==
    IF T.kind = "Option" THEN Ok(None) ELSE Err("unexpected NULL value")

\* FromSql for SqlTypeWrapper<T>
SqlTypeWrapper_from_sql(T, raw) == from_sql_value(T, raw)
SqlTypeWrapper_from_sql_null(T) == from_sql_null_value(T)

\* row.try_get into SqlTypeWrapper<T>, as the derived from_row calls it
try_get(T, cell) ==
    IF ~accepts(T, cell.pg) THEN Err("wrong type")
    ELSE IF cell.raw = SqlNull THEN SqlTypeWrapper_from_sql_null(T)
    ELSE SqlTypeWrapper_from_sql(T, cell.raw)

DecInit == decoded = None

DecTryGet ==
    /\ decoded = None
    /\ \E T \in TypesUpTo(MaxOption), cell \in Cells :
          decoded' = [kind |-> "Decoded", T |-> T, cell |-> cell, result |-> try_get(T, cell)]
    /\ UNCHANGED notDec

DecNext == DecTryGet

\* ------------------------------------------------- Executor::query_opt
MaxMatching == 3
MaxWrites == 2

RowIds == 1..MaxMatching

\* GenericClient::query: every matching row
Executor_query(rows) == rows

\* GenericClient::query_one: the row when exactly one matches, else an error
Executor_query_one(rows) ==
    IF Cardinality(rows) = 1 THEN Ok(CHOOSE r \in rows : TRUE) ELSE Err("RowCount")

Panicked == [kind |-> "Panic"]

QoInit ==
    /\ matching = {}
    /\ writes = 0
    /\ qo = [pc |-> "idle", seen |-> 0, outcome |-> None]

\* another connection inserts, deletes or updates a row of the table
QoWriter ==
    /\ writes < MaxWrites
    /\ \E r \in RowIds : matching' = (IF r \in matching THEN matching \ {r} ELSE matching \cup {r})
    /\ writes' = writes + 1
    /\ UNCHANGED <<qo, notQo>>

\* query_opt, first round trip: the query and the match on rows.len()
QoQuery ==
    /\ qo.pc = "idle"
    /\ LET rows == Executor_query(matching)
           n == Cardinality(rows)
       IN  qo' = CASE n = 0 -> [pc |-> "done", seen |-> n, outcome |-> Ok(None)]
                   [] n = 1 -> [pc |-> "done", seen |-> n,
                                outcome |-> Ok(Some(CHOOSE r \in rows : TRUE))]
                   [] OTHER -> [pc |-> "query_one", seen |-> n, outcome |-> None]
    /\ UNCHANGED <<matching, writes, notQo>>

\* query_opt, second round trip: `self.query_one(query, params).await?`
\* followed by unreachable!()
QoQueryOne ==
    /\ qo.pc = "query_one"
    /\ LET again == Executor_query_one(matching)
       IN  qo' = IF again.kind = "Err" THEN [qo EXCEPT !.pc = "done", !.outcome = again]
                 ELSE [qo EXCEPT !.pc = "done", !.outcome = Panicked]
    /\ UNCHANGED <<matching, writes, notQo>>

\* the table as another query finds it: any rows
QoSeed ==
    /\ qo.pc = "idle" /\ writes = 0 /\ matching = {}
    /\ \E rows \in SUBSET RowIds : rows # {} /\ matching' = rows
    /\ UNCHANGED <<writes, qo, notQo>>

QoNext == QoSeed \/ QoWriter \/ QoQuery \/ QoQueryOne

\* ------------------------------------------------- the #[sql] macro
\* A literal is the sequence of its characters, each a one-character string.
MaxLiteral == 7

\* a colon, two characters the class \w accepts, and one it does not
Alphabet == {":", "a", "b", " "}

DecimalDigits == <<"0", "1", "2", "3", "4", "5", "6", "7", "8", "9">>

\* the regex class \w
WordChars == {"a", "b", "_"} \cup {DecimalDigits[k] : k \in 1..10}

\* format!("{}", n) of a number
RECURSIVE Decimal(_)
Decimal(n) ==
    IF n < 10 THEN <<DecimalDigits[n + 1]>>
    ELSE Decimal(n \div 10) \o <<DecimalDigits[(n % 10) + 1]>>

\* the position after the longest run of \w that starts at i: the greedy \w+
RECURSIVE WordEnd(_, _)
WordEnd(sql, i) ==
    IF i <= Len(sql) /\ sql[i] \in WordChars THEN WordEnd(sql, i + 1) ELSE i

\* Regex [^:]:(\w+) . captures_iter: the first capture group of every
\* leftmost, non-overlapping match found from position i on
RECURSIVE captures_iter(_, _)
captures_iter(sql, i) ==
    IF i + 2 > Len(sql) THEN <<>>
    ELSE IF sql[i] # ":" /\ sql[i + 1] = ":" /\ sql[i + 2] \in WordChars
         THEN LET e == WordEnd(sql, i + 2)
              IN  <<SubSeq(sql, i + 2, e - 1)>> \o captures_iter(sql, e)
         ELSE captures_iter(sql, i + 1)

\* collect::<HashSet<String>>()
matched(sql) == {captures_iter(sql, 1)[k] : k \in 1..Len(captures_iter(sql, 1))}

\* into_iter().collect_vec() of a HashSet: its elements once each, in an
\* order the hasher's random state decides
matched_fields(sql) ==
    {f \in [1..Cardinality(matched(sql)) -> matched(sql)] :
        \A j, k \in DOMAIN f : f[j] = f[k] => j = k}

\* str::replace: every non-overlapping occurrence of from, left to right
RECURSIVE str_replace(_, _, _)
str_replace(s, from, to) ==
    IF Len(s) < Len(from) THEN s
    ELSE IF SubSeq(s, 1, Len(from)) = from
         THEN to \o str_replace(SubSeq(s, Len(from) + 1, Len(s)), from, to)
         ELSE <<s[1]>> \o str_replace(Tail(s), from, to)

\* the for_each over matched_fields: field idx is replaced in the text the
\* earlier replacements left
RECURSIVE replace_fields(_, _, _)
replace_fields(sql, fields, idx) ==
    IF idx > Len(fields) THEN sql
    ELSE replace_fields(str_replace(sql, <<":">> \o fields[idx], <<"$">> \o Decimal(idx)),
                        fields, idx + 1)

executor_name == <<"e", "x", "e", "c", "u", "t", "o", "r">>

\* build_sqlx_query: the statement text and the bind arguments after it
build_sqlx_query(fields, sql) ==
    [sql |-> sql, fields |-> SelectSeq(fields, LAMBDA field : field # executor_name)]

\* the Lit::Str arm of handler, for one iteration order of the HashSet
handler(sql, fields) == build_sqlx_query(fields, replace_fields(sql, fields, 1))

SqlInit == lit_str = <<>> /\ query_stmt = None

\* the body of the function is written, one character after the other
SqlLiteral ==
    /\ query_stmt = None
    /\ Len(lit_str) < MaxLiteral
    /\ \E c \in Alphabet : lit_str' = Append(lit_str, c)
    /\ UNCHANGED <<query_stmt, notSql>>

\* the macro expands the function
SqlHandler ==
    /\ query_stmt = None
    /\ \E fields \in matched_fields(lit_str) : query_stmt' = Some(handler(lit_str, fields))
    /\ UNCHANGED <<lit_str, notSql>>

SqlNext == SqlLiteral \/ SqlHandler

Init ==
    /\ ExprInit
    /\ SelInit
    /\ upd = None /\ upd_result = NoResult
    /\ del = None /\ del_result = NoResult
    /\ ins = None /\ ins_sql = None /\ ins_result = NoResult
    /\ executor_calls = <<>>
    /\ MigInit
    /\ ConInit
    /\ DecInit
    /\ QoInit
    /\ SqlInit

SpecExpr == Init /\ [][ExprNext]_vars

SpecSelect == Init /\ [][SelNext]_vars

SpecFetch == Init /\ [][FetchNext]_vars

SpecUpdate == Init /\ [][UpdNext]_vars

SpecDelete == Init /\ [][DelNext]_vars

SpecInsert == Init /\ [][InsNext]_vars

SpecMigrate == Init /\ [][MigNext]_vars

SpecConcurrent == Init /\ [][ConNext]_vars

SpecDecode == Init /\ [][DecNext]_vars

SpecQueryOpt == Init /\ [][QoNext]_vars

SpecSql == Init /\ [][SqlNext]_vars


\* ------------------------------------------------- Expression properties
\* the text contains the literal `IN ()`
HasEmptyIn(sql) ==
    \E j \in 1..(Len(sql) - 2) :
        sql[j] = Kw("IN") /\ sql[j + 1] = Kw("(") /\ sql[j + 2] = Kw(")")

RECURSIVE LeafPairs(_, _, _)
\* the (placeholder number, supplied value) pairs of a rendering: the k-th
\* placeholder a leaf emits paired with the k-th value supplied to that leaf
LeafPairs(e, start_param, use_qualified) ==
    IF e.kind = "Comparison" THEN
        LET ps == Placeholders(comparison_sql(e, start_param, use_qualified))
        IN  {<<ps[k], e.values[k]>> : k \in (1..Len(ps)) \cap (1..Len(e.values))}
    ELSE
        LeafPairs(e.left, start_param, use_qualified)
          \cup LeafPairs(e.right,
                         build_internal_with_qualifier(e.left, start_param, use_qualified).next,
                         use_qualified)

\* the values supplied to the leaves of a tree, leaf by leaf from the left
SuppliedValues(e) == Flat([j \in 1..Len(Leaves(e)) |-> Leaves(e)[j].values])

IsBuild == result.kind = "Sql" /\ result.start = 1 /\ ~result.qualified

\* C1: for any Expression tree, however its leaves were constructed, build()
\* returns SQL whose $n placeholders, read left to right, are exactly
\* 1, 2, ..., values.len().
C1_PlaceholdersMatchValues ==
    IsBuild => Placeholders(result.sql) = Run(1, Len(result.values))

\* C6: for any Expression tree rendered from start index i, the j-th returned
\* value (0-based) is the value supplied to the leaf that emitted placeholder
\* $(i+j); an And/Or node's values are the left subtree's followed by the
\* right subtree's and a leaf's values keep their order.
C6_ValueOfPlaceholder ==
    result.kind = "Sql" =>
        /\ result.values = SuppliedValues(result.of)
        /\ \A j \in 1..Len(result.values) :
             <<result.start + (j - 1), result.values[j]>>
                \in LeafPairs(result.of, result.start, result.qualified)

\* C7: rendering field.in_list(vs) with an empty vs never produces the literal
\* text `IN ()`; for non-empty vs of length k it renders
\* IN ($i, ..., $(i+k-1)) with k values.
C7_InListNeverEmptyParens ==
    (result.kind = "Sql" /\ result.of.kind = "Comparison" /\ result.of.operator = "In") =>
        LET k == Len(result.of.values)
            name == IF result.qualified THEN qualified_name(result.of.field)
                    ELSE quoted_name(result.of.field)
        IN  /\ ~HasEmptyIn(result.sql)
            /\ k > 0 =>
                 /\ Placeholders(result.sql) = Run(result.start, k)
                 /\ Len(result.values) = k
                 /\ SubSeq(result.sql, 1, Len(name) + 2) = name \o <<Kw("IN"), Kw("(")>>
                 /\ result.sql[Len(result.sql)] = Kw(")")

\* ------------------------------------------------ SelectBuilder properties
ClauseWords ==
    {"SELECT", "INNER JOIN", "LEFT JOIN", "RIGHT JOIN", "WHERE", "GROUP BY", "ORDER BY",
     "LIMIT", "OFFSET"}

IsClauseWord(t) == t.k = "kw" /\ t.s \in ClauseWords

\* the clause-opening keywords of a statement, read left to right
ClauseOrder(sql) ==
    LET cs == SelectSeq(sql, IsClauseWord)
    IN  [j \in 1..Len(cs) |-> cs[j].s]

\* position of the first token equal to tok, 0 if there is none
IndexOf(sql, tok) ==
    LET S == {j \in 1..Len(sql) : sql[j] = tok}
    IN  IF S = {} THEN 0 ELSE CHOOSE j \in S : \A k \in S : j <= k

\* the WHERE clause of a statement: from WHERE up to the next clause keyword
WherePart(sql) ==
    LET w == IndexOf(sql, Kw("WHERE"))
        E == {j \in (w + 1)..Len(sql) : IsClauseWord(sql[j])}
        e == IF E = {} THEN Len(sql) + 1 ELSE CHOOSE j \in E : \A k \in E : j <= k
    IN  IF w = 0 THEN <<>> ELSE SubSeq(sql, w, e - 1)

RECURSIVE Conjunction(_)
\* ((e1 AND e2) AND e3) ... for a non-empty sequence of expressions
Conjunction(es) ==
    IF Len(es) = 1 THEN es[1]
    ELSE [kind |-> "And", left |-> Conjunction(SubSeq(es, 1, Len(es) - 1)), right |-> es[Len(es)]]

\* the values supplied to the join predicates, in join order
JoinValues == Flat([j \in 1..Len(sel.joins) |-> SuppliedValues(sel.joins[j].on)])

\* the values supplied to the filter calls, in call order
FilterValues == Flat([j \in 1..Len(sel_calls.filters) |-> SuppliedValues(sel_calls.filters[j])])

SelBuilt == sel_result.kind = "Sql"

\* C8: on SelectBuilder the first filter call sets the filter and every later
\* call combines with AND (never OR, never replacing): after filter(e1), ...,
\* filter(en) the WHERE clause is the left-nested conjunction of e1..en in call
\* order and every ei's values are bound.
C8_FiltersCombineWithAnd ==
    LET fs == sel_calls.filters
    IN  /\ Len(fs) = 0 => sel.filter_expr = None
        /\ Len(fs) > 0 => sel.filter_expr = Some(Conjunction(fs))
        /\ (SelBuilt /\ Len(fs) = 0) => WherePart(sel_result.sql) = <<>>
        /\ (SelBuilt /\ Len(fs) > 0) =>
             /\ WherePart(sel_result.sql)
                  = <<Kw("WHERE")>>
                      \o build_internal_with_qualifier(Conjunction(fs), 1 + Len(JoinValues), FALSE).sql
             /\ sel_result.values = JoinValues \o FilterValues

C8_Witness ==
    /\ SelBuilt
    /\ Len(sel_calls.filters) = 2
    /\ sel_calls.filters[1] # sel_calls.filters[2]
    /\ Len(FilterValues) >= 2

\* C9: SelectBuilder.build renders the clauses in the fixed order SELECT/FROM,
\* joins, WHERE, GROUP BY, ORDER BY, LIMIT, OFFSET, each present only if
\* configured, whatever the order of the configuration calls.
C9_ClauseOrder ==
    SelBuilt =>
        ClauseOrder(sel_result.sql)
          = <<"SELECT">>
              \o [j \in 1..Len(sel.joins) |-> JoinType_to_sql(sel.joins[j].join_type)]
              \o (IF Len(sel_calls.filters) > 0 THEN <<"WHERE">> ELSE <<>>)
              \o (IF Len(sel.group_by) > 0 THEN <<"GROUP BY">> ELSE <<>>)
              \o (IF Len(sel.order_by) > 0 THEN <<"ORDER BY">> ELSE <<>>)
              \o (IF sel.limit # None THEN <<"LIMIT">> ELSE <<>>)
              \o (IF sel.offset # None THEN <<"OFFSET">> ELSE <<>>)

\* every clause configured
C9_Witness ==
    /\ SelBuilt
    /\ Len(sel.joins) > 0 /\ Len(sel_calls.filters) > 0 /\ Len(sel.group_by) > 0
    /\ Len(sel.order_by) > 0 /\ sel.limit # None /\ sel.offset # None

C2_UpdateTerminalNeedsSetAndFilter ==
    /\ upd # None =>
         (UpdateBuilder_terminal(upd) <=> (upd.set_calls >= 1 /\ upd.filter_calls >= 1))
    /\ upd_result # NoResult =>
         /\ upd.set_calls >= 1 /\ Len(upd.updates) >= 1
         /\ upd.filter_calls >= 1 /\ upd.filter_expr # None

C2_Witness ==
    /\ upd_result.kind = "Sql"
    /\ upd.set_calls >= 1
    /\ upd.filter_calls >= 1

\* ------------------------------------------------ DeleteBuilder properties
\* C3: DeleteBuilder exposes build/execute only after filter has been called
\* at least once, so every builder on which build can be called holds a filter
\* expression and build never renders a DELETE without a WHERE clause.
C3_DeleteTerminalNeedsFilter ==
    /\ (del # None /\ DeleteBuilder_terminal(del)) =>
         (del.filter_calls >= 1 /\ del.filter_expr # None)
    /\ del_result.kind = "Sql" => IndexOf(del_result.sql, Kw("WHERE")) # 0

\* -------------------------------------------- InsertManyBuilder properties
InsDone == ins # None /\ ins_result # NoResult

\* the tokens after the word VALUES, up to RETURNING or the end
ValuesPart(sql) ==
    LET v == IndexOf(sql, Kw("VALUES"))
        r == IndexOf(sql, Kw("RETURNING"))
    IN  SubSeq(sql, v + 1, IF r = 0 THEN Len(sql) ELSE r - 1)

\* ($a, $a+1, ..., $a+k-1)
PlaceholderTuple(a, k) ==
    <<Kw("(")>> \o JoinSep([i \in 1..k |-> <<Param(a + i - 1)>>], <<Kw(",")>>) \o <<Kw(")")>>

\* C4: for an InsertManyBuilder holding zero payloads, returning_pk,
\* returning_entity and execute return their empty result (empty vec, empty
\* vec, 0) without any executor call and without building any SQL text.
C4_EmptyBatchShortCircuit ==
    (InsDone /\ Len(ins.data) = 0) =>
        /\ executor_calls = <<>>
        /\ ins_sql = None
        /\ ins_result.ret = [kind |-> "Ok",
                             v |-> IF ins_result.op = "execute" THEN 0 ELSE <<>>]

C4_Witness ==
    /\ InsDone
    /\ Len(ins.data) = 0
    /\ ins_result.op = "execute"

\* C5: for a batch insert of n >= 1 payloads with k fields each, the VALUES
\* tuple of row r (0-based) holds exactly $(r*k+1) .. $((r+1)*k) in field
\* order, the n tuples appear in payload order, and the bound value list has
\* n*k values in row-major order, value j (1-based) being bound to $j.
C5_BatchPlaceholders ==
    (InsDone /\ Len(ins.data) >= 1) =>
        LET n == Len(ins.data)
            k == ins.fields_len
        IN  /\ Len(executor_calls) = 1
            /\ ins_sql = Some(executor_calls[1].sql)
            /\ ValuesPart(executor_calls[1].sql)
                 = JoinSep([r \in 1..n |-> PlaceholderTuple((r - 1) * k + 1, k)], <<Kw(",")>>)
            /\ Placeholders(executor_calls[1].sql) = Run(1, n * k)
            /\ Len(executor_calls[1].params) = n * k
            /\ \A j \in 1..(n * k) :
                 executor_calls[1].params[j] = ins.data[((j - 1) \div k) + 1][((j - 1) % k) + 1]

C5_Witness ==
    /\ InsDone
    /\ Len(ins.data) = 2
    /\ ins.fields_len = 2
    /\ ins.data[1] # ins.data[2]
    /\ ins.data[1][1] # ins.data[1][2]
    /\ Len(executor_calls) = 1

\* ------------------------------------------- UpdateBuilder build properties
UpdBuilt == upd_result.kind = "Sql"

\* the SET clause of an UPDATE statement: after SET, up to WHERE or the end
SetPart(sql) ==
    LET s == IndexOf(sql, Kw("SET"))
        w == IndexOf(sql, Kw("WHERE"))
    IN  SubSeq(sql, s + 1, IF w = 0 THEN Len(sql) ELSE w - 1)

IsQuoted(t) == t.k = "quoted"

\* the quoted column names of a text, read left to right
QuotedNames(sql) ==
    LET qs == SelectSeq(sql, IsQuoted)
    IN  [j \in 1..Len(qs) |-> qs[j].s]

\* C11: UpdateBuilder.build with k assignments renders the SET placeholders
\* $1..$k in set-call order and numbers the filter's placeholders contiguously
\* from $(k+1); the returned values are the k assignment values in call order
\* followed by the filter values.
C11_UpdateNumbering ==
    UpdBuilt =>
        LET k == Len(upd.updates)
            sp == SetPart(upd_result.sql)
            wp == Placeholders(WherePart(upd_result.sql))
        IN  /\ k = upd.set_calls
            /\ Placeholders(sp) = Run(1, k)
            /\ QuotedNames(sp) = [i \in 1..k |-> upd.updates[i][1].name]
            /\ wp = Run(k + 1, Len(wp))
            /\ upd_result.values
                 = [i \in 1..k |-> upd.updates[i][2]] \o SuppliedValues(upd.filter_expr.v)

\* ----------------------------------------------------- projection property
\* C12: select().returning::<R>() renders the SELECT column list from R's
\* column names while the FROM clause names the base entity's table, for
\* every R, also an R that is an entity with a table of its own.
C12_ReturningProjection ==
    SelBuilt =>
        LET sql == sel_result.sql
            f == IndexOf(sql, Kw("FROM"))
        IN  /\ sql[1] = Kw("SELECT")
            /\ f > 1
            /\ QuotedNames(SubSeq(sql, 2, f - 1)) = COLUMN_NAMES(sel.Returning)
            /\ sql[f + 1] = Ident(TABLE_NAME)

C12_Witness ==
    /\ SelBuilt
    /\ sel.Returning = "Profile"
    /\ Len(sel_calls.filters) > 0

\* ------------------------------------------------------ ORDER BY property
\* a clause of a statement: from its keyword up to the next clause keyword
ClausePart(sql, word) ==
    LET w == IndexOf(sql, Kw(word))
        E == {j \in (w + 1)..Len(sql) : IsClauseWord(sql[j])}
        e == IF E = {} THEN Len(sql) + 1 ELSE CHOOSE j \in E : \A k \in E : j <= k
    IN  IF w = 0 THEN <<>> ELSE SubSeq(sql, w, e - 1)

\* how an order_by argument reads in the clause: a bare field is ascending
KeyText(arg) ==
    IF "order" \in DOMAIN arg
    THEN <<Quoted(arg.field.name), Kw(IF arg.order = "Desc" THEN "DESC" ELSE "ASC")>>
    ELSE <<Quoted(arg.name), Kw("ASC")>>

\* C13: each order_by call appends one key: after order_by(k1), ...,
\* order_by(kn) the ORDER BY clause lists k1..kn in call order, and a bare
\* field given without asc()/desc() renders as ASC.
C13_OrderByAppends ==
    LET ks == sel_calls.order_by
    IN  /\ Len(sel.order_by) = Len(ks)
        /\ SelBuilt =>
             ClausePart(sel_result.sql, "ORDER BY")
               = IF Len(ks) = 0 THEN <<>>
                 ELSE <<Kw("ORDER BY")>>
                        \o JoinSep([j \in 1..Len(ks) |-> KeyText(ks[j])], <<Kw(",")>>)

\* name descending first, then the bare id: neither name nor declaration order
C13_Witness ==
    /\ SelBuilt
    /\ sel_calls.order_by = <<OrderedField(name_field, "Desc"), id_field>>

\* --------------------------------------------------- one/optional property
SelFetched(op) ==
    sel_result.kind = "Fetched" /\ sel_result.op = op /\ sel_result.answer.kind = "Rows"

\* C14: SelectBuilder.one succeeds only when the query yields exactly one row
\* and fails for zero rows and for more than one row; optional returns absence
\* for zero rows, the row for exactly one row, and fails for more than one row.
C14_OneOptionalRowCount ==
    LET rows == sel_result.answer.rows
        out == sel_result.out
    IN  /\ SelFetched("one") =>
             /\ out.kind = "Ok" => (Len(rows) = 1 /\ out.v = rows[1].id)
             /\ Len(rows) # 1 => out.kind = "Err"
        /\ SelFetched("optional") =>
             /\ Len(rows) = 0 => out = Ok(None)
             /\ (Len(rows) = 1 /\ rows[1].decodes) => out = Ok(Some(rows[1].id))
             /\ Len(rows) > 1 => out.kind = "Err"

\* ------------------------------------------------------ nesting property
RECURSIVE Subtrees(_)
\* every node of a tree
Subtrees(e) ==
    IF e.kind = "Comparison" THEN {e} ELSE {e} \cup Subtrees(e.left) \cup Subtrees(e.right)

RECURSIVE CallTree(_, _)
\* the tree that the and/or calls of a history describe, nested in call order
CallTree(first, chain) ==
    IF Len(chain) = 0 THEN first
    ELSE LET c == chain[Len(chain)]
             acc == CallTree(first, SubSeq(chain, 1, Len(chain) - 1))
         IN  CASE c.method = "and" -> [kind |-> "And", left |-> acc, right |-> c.other]
               [] c.method = "or" -> [kind |-> "Or", left |-> acc, right |-> c.other]
               [] c.method = "and_into" -> [kind |-> "And", left |-> c.other, right |-> acc]

Count(sql, tok) == Cardinality({j \in 1..Len(sql) : sql[j] = tok})

InLeaves(e) == Len(SelectSeq(Leaves(e), LAMBDA l : l.operator = "In"))

RECURSIVE RendersNested(_, _)
\* every node of the tree t, t included, renders as its left operand, the
\* connective and its right operand in one pair of parentheses, and every
\* leaf starts with its column
RendersNested(t, qualified) ==
    LET whole == build_internal_with_qualifier(t, 1, qualified)
    IN  IF t.kind = "Comparison"
        THEN whole.sql[1].k \in {"quoted", "ident"}
        ELSE LET l == build_internal_with_qualifier(t.left, 1, qualified)
                 r == build_internal_with_qualifier(t.right, l.next, qualified)
             IN  /\ whole.sql = <<Kw("(")>> \o l.sql
                                  \o <<Kw(IF t.kind = "And" THEN "AND" ELSE "OR")>>
                                  \o r.sql \o <<Kw(")")>>
                 /\ RendersNested(t.left, qualified)
                 /\ RendersNested(t.right, qualified)

\* C15: a.and(b).or(c) renders as ((a AND b) OR c): every And/Or node renders
\* as its left operand, the connective, its right operand, wrapped in exactly
\* one pair of parentheses, so nesting follows call order, and leaves are
\* never parenthesized.
C15_NestingFollowsCalls ==
    result.kind = "Sql" =>
        /\ result.of = CallTree(expr_calls.first, expr_calls.chain)
        /\ LET pairs == Combines(result.of) + InLeaves(result.of)
           IN  /\ Count(result.sql, Kw("(")) = pairs
               /\ Count(result.sql, Kw(")")) = pairs
        \* the nodes are rendered from 1 here, whatever the statement started from
        /\ result.start = 1 => RendersNested(result.of, result.qualified)

\* id.eq(1).and(name.like(2)).or(email.is_null()) built:
\* (("id" = $1 AND "name" LIKE $2) OR "email" IS NULL)
C15_Witness ==
    /\ IsBuild
    /\ expr_calls = [first |-> field_compare(id_field, "Eq", 1),
                     args |-> <<>>,
                     chain |-> <<[method |-> "and", other |-> like(name_field, 2)],
                                 [method |-> "or", other |-> is_null(email_field)]>>]
    /\ result.sql = <<Kw("("), Kw("("), Quoted("id"), Kw("="), Param(1), Kw("AND"),
                      Quoted("name"), Kw("LIKE"), Param(2), Kw(")"), Kw("OR"),
                      Quoted("email"), Kw("IS NULL"), Kw(")")>>

\* ------------------------------------------------------ between property
\* a lone Field::between leaf has been rendered
BetweenBuilt == result.kind = "Sql" /\ Len(expr_calls.args) = 2 /\ Len(expr_calls.chain) = 0

\* C16: field.between(low, high) rendered from start index i emits
\* BETWEEN $i AND $(i+1) with values [low, high] in the order supplied; the two
\* values are never reordered or sorted, also when low > high.
C16_BetweenKeepsOrder ==
    BetweenBuilt =>
        LET i == result.start
            name == IF result.qualified THEN qualified_name(result.of.field)
                    ELSE quoted_name(result.of.field)
        IN  /\ result.sql = name \o <<Kw("BETWEEN"), Param(i), Kw("AND"), Param(i + 1)>>
            /\ result.values = expr_calls.args

\* low > high, rendered from a start index other than 1
C16_Witness ==
    /\ BetweenBuilt
    /\ expr_calls.args[1] > expr_calls.args[2]
    /\ result.start > 1

\* ------------------------------------------------- limit/offset property
\* C17: for limit and offset on SelectBuilder the last call wins: after any
\* sequence of limit/offset calls build renders at most one LIMIT and at most
\* one OFFSET clause, carrying the argument of the most recent corresponding
\* call; no call returns an error, each returns the builder.
C17_LastCallWins ==
    /\ sel.limit = sel_calls.limit.last
    /\ sel.offset = sel_calls.offset.last
    /\ SelBuilt =>
         /\ ClausePart(sel_result.sql, "LIMIT")
              = (IF sel_calls.limit.last = None THEN <<>>
                 ELSE <<Kw("LIMIT"), Num(sel_calls.limit.last.v)>>)
         /\ ClausePart(sel_result.sql, "OFFSET")
              = (IF sel_calls.offset.last = None THEN <<>>
                 ELSE <<Kw("OFFSET"), Num(sel_calls.offset.last.v)>>)
         /\ Count(sel_result.sql, Kw("LIMIT")) <= 1
         /\ Count(sel_result.sql, Kw("OFFSET")) <= 1

\* limit and offset were each called again with a different argument
C17_Witness ==
    /\ SelBuilt
    /\ sel_calls.limit.replaced
    /\ sel_calls.offset.replaced

\* --------------------------------------------------------------- C18
IsBatch(e) == e.op = "batch_execute"

\* the versions whose migration SQL a run executed, in order
Executed(r) ==
    LET s == SelectSeq(r.log, IsBatch) IN [i \in 1..Len(s) |-> s[i].version]

StrictlyAscending(vs) == \A i \in 1..Len(vs), j \in 1..Len(vs) : i < j => vs[i] < vs[j]

SourceVersions == {mig.migrations[i].version : i \in 1..Len(mig.migrations)}

\* C18: whatever the order of the add_migration calls, the migrator's list is
\* sorted by version; every run executes migration SQL in strictly ascending
\* version order, and a run that returns Ok applied exactly the source
\* versions that had no record, its report listing them in that order
C18_AscendingOrder ==
    /\ \A i \in 1..Len(mig.migrations), j \in 1..Len(mig.migrations) :
          i < j => mig.migrations[i].version <= mig.migrations[j].version
    /\ \A k \in 1..Len(runs) :
          /\ StrictlyAscending(Executed(runs[k]))
          /\ runs[k].result.kind = "Ok" =>
                /\ [i \in 1..Len(runs[k].result.v.applied) |->
                        runs[k].result.v.applied[i].version] = Executed(runs[k])
                /\ {Executed(runs[k])[i] : i \in 1..Len(Executed(runs[k]))}
                     = SourceVersions \ {r.version : r \in runs[k].db_before}

\* a migrator given version 2 before version 1 has run and applied 1, then 2
C18_Witness ==
    /\ added_late
    /\ \E k \in 1..Len(runs) :
          /\ runs[k].result.kind = "Ok"
          /\ Executed(runs[k]) = <<1, 2>>
          /\ Len(runs[k].result.v.applied) = 2

\* --------------------------------------------------------------- C19
\* C19: when a run returned Ok, the next run of the same migrator on the same
\* database executes no migration SQL, leaves the records as they are, and
\* returns Ok with applied empty and skipped the number of source migrations
C19_SecondRunIdle ==
    (Len(runs) = 2 /\ runs[1].result.kind = "Ok") =>
        /\ runs[2].result = Ok(MigrateReport(Len(mig.migrations), <<>>))
        /\ Executed(runs[2]) = <<>>
        /\ runs[2].db_after = runs[2].db_before

\* the first run applied migrations, the second skipped them all
C19_Witness ==
    /\ Len(runs) = 2
    /\ runs[1].result.kind = "Ok"
    /\ Len(runs[1].result.v.applied) = 2
    /\ runs[2].result.kind = "Ok"
    /\ runs[2].result.v.skipped = 2

\* --------------------------------------------------------------- C20
\* the version of the source migration is on record as applied with a
\* checksum that is not the digest of the source's text
Mismatched(r, migration) ==
    \E rec \in r.db_before :
        /\ rec.version = migration.version
        /\ rec.success
        /\ rec.checksum # Sha256(migration.sql)

\* the run ended on a dirty record, a missing source or the failure of a
\* pending migration of a lower version
EndedBefore(r, version) ==
    /\ r.result.kind = "Err"
    /\ \/ r.result.e.type \in {"Dirty", "MissingSource"}
       \/ r.result.e.type = "Database" /\ r.failed < version

\* the statement as written: a mismatched version v makes the run fail, with
\* ChecksumMismatch(v) unless a dirty record, a missing source or a failing
\* lower pending migration ends the run first
C20_MismatchReported ==
    \A k \in 1..Len(runs) : \A i \in 1..Len(mig.migrations) :
        Mismatched(runs[k], mig.migrations[i]) =>
            /\ runs[k].result.kind = "Err"
            /\ \/ EndedBefore(runs[k], mig.migrations[i].version)
               \/ runs[k].result = Err(MigrateError("ChecksumMismatch", mig.migrations[i].version))

\* C20: a mismatched version v makes the run fail, and with
\* ChecksumMismatch(v) unless a dirty record, a missing source, a failing
\* pending migration of a lower version or the mismatch of a lower version
\* ends the run first
C20_LowestMismatchReported ==
    \A k \in 1..Len(runs) : \A i \in 1..Len(mig.migrations) :
        Mismatched(runs[k], mig.migrations[i]) =>
            /\ runs[k].result.kind = "Err"
            /\ \/ EndedBefore(runs[k], mig.migrations[i].version)
               \/ runs[k].result = Err(MigrateError("ChecksumMismatch", mig.migrations[i].version))
               \/ \E j \in 1..Len(mig.migrations) :
                    /\ mig.migrations[j].version < mig.migrations[i].version
                    /\ Mismatched(runs[k], mig.migrations[j])
                    /\ runs[k].result = Err(MigrateError("ChecksumMismatch", mig.migrations[j].version))

\* version 1 was pending and applied, then version 2 found mismatched
C20_Witness ==
    \E k \in 1..Len(runs) :
        /\ runs[k].result = Err(MigrateError("ChecksumMismatch", 2))
        /\ Executed(runs[k]) = <<1>>
        /\ \E i \in 1..Len(mig.migrations) : Mismatched(runs[k], mig.migrations[i])

\* --------------------------------------------------------------- C21
HasDirty(r) == \E rec \in r.db_before : ~rec.success

\* the source versions without a record when the run began
Pending(r) == SourceVersions \ {rec.version : rec \in r.db_before}

\* the run stopped on a missing source and touched nothing
StoppedOnMissing(r) ==
    /\ r.result.kind = "Err"
    /\ r.result.e.type = "MissingSource"
    /\ r.result.e.version \in Missing(mig, r.db_before)
    /\ Executed(r) = <<>>
    /\ r.db_after = r.db_before

\* the run returned Ok and applied the pending source versions
AppliedPending(r) ==
    /\ r.result.kind = "Ok"
    /\ {r.result.v.applied[i].version : i \in 1..Len(r.result.v.applied)} = Pending(r)
    /\ {rec.version : rec \in r.db_after \ r.db_before} = Pending(r)

IsSetCall(c) == c.op = "set"
IsFilterCall(c) == c.op = "filter"

RECURSIVE Replay(_, _)
\* the builder that results from making the calls in the given order
Replay(self, calls) ==
    IF Len(calls) = 0 THEN self
    ELSE LET c == calls[1]
         IN  Replay(IF c.op = "set" THEN UpdateBuilder_set(self, c.field, c.value)
                    ELSE UpdateBuilder_filter(self, c.e),
                    SubSeq(calls, 2, Len(calls)))

\* the same calls with every set moved before every filter
SetsFirst(calls) == SelectSeq(calls, IsSetCall) \o SelectSeq(calls, IsFilterCall)

\* C22: whatever the order in which set and filter were called, build gives
\* the SQL and the values that the same calls give with every set made
\* before every filter; the SET placeholders are $1..$k and the first
\* placeholder of the filter is $(k+1)
C22_CallOrderIrrelevant ==
    UpdBuilt =>
        LET canonical == UpdateBuilder_build(Replay(UpdateBuilder_new, SetsFirst(upd.calls)))
            k == Len(SelectSeq(upd.calls, IsSetCall))
            where == Placeholders(WherePart(upd_result.sql))
        IN  /\ upd_result.sql = canonical.sql
            /\ upd_result.values = canonical.values
            /\ Placeholders(SetPart(upd_result.sql)) = [i \in 1..k |-> i]
            /\ Len(where) > 0 => where[1] = k + 1

\* a statement built after filter, set, filter, set
C22_Witness ==
    /\ UpdBuilt
    /\ Len(upd.calls) = 4
    /\ upd.calls[1].op = "filter" /\ upd.calls[2].op = "set"
    /\ upd.calls[3].op = "filter" /\ upd.calls[4].op = "set"

\* --------------------------------------------------------------- C23
\* C23: a run that returns ChecksumMismatch has executed no migration SQL
\* and has left the records of the migrations table as they were
C23_ValidatedBeforeApplying ==
    \A k \in 1..Len(runs) :
        (runs[k].result.kind = "Err" /\ runs[k].result.e.type = "ChecksumMismatch") =>
            /\ Executed(runs[k]) = <<>>
            /\ runs[k].db_after = runs[k].db_before

\* --------------------------------------------------------------- C24
IsLock(e) == e.op = "lock"
IsUnlock(e) == e.op = "unlock"

\* what run makes of the result of run_internal: its error as it is, or the
\* report it filled
Returned(r) ==
    IF r.internal.kind = "Err" THEN r.result = r.internal
    ELSE /\ r.internal = Ok(Unit)
         /\ r.result.kind = "Ok"
         /\ r.result.v.skipped + Len(r.result.v.applied) = Len(mig.migrations)

\* C24: with locking on, every run issues the lock as its first statement
\* and the unlock as its last, once each, whether run_internal succeeded or
\* ended in Dirty, MissingSource, ChecksumMismatch or a failed migration;
\* with locking off neither is issued; the error of run_internal is the
\* error of run
C24_LockBrackets ==
    \A k \in 1..Len(runs) :
        LET log == runs[k].log
        IN  /\ mig.locking =>
                /\ Len(log) >= 2
                /\ log[1] = Locked
                /\ log[Len(log)] = Unlocked
                /\ Len(SelectSeq(log, IsLock)) = 1
                /\ Len(SelectSeq(log, IsUnlock)) = 1
            /\ ~mig.locking => (SelectSeq(log, IsLock) = <<>> /\ SelectSeq(log, IsUnlock) = <<>>)
            /\ Returned(runs[k])

\* with locking on, two runs: one ended on a failed migration after its SQL
\* had been executed, the other succeeded
C24_Witness ==
    /\ mig.locking
    /\ Len(runs) = 2
    /\ runs[1].result = Err(MigrateError("Database", 0))
    /\ Executed(runs[1]) # <<>>
    /\ runs[1].log[Len(runs[1].log)] = Unlocked
    /\ runs[2].result.kind = "Ok"
    /\ runs[2].log[Len(runs[2].log)] = Unlocked

\* --------------------------------------------------------------- C27
IsBegin(e) == e.op = "begin"

\* the records a run added to the migrations table
Written(r) == r.db_after \ r.db_before

AllLocking == \A p \in Runners : runners[p].locking

RECURSIVE Wrapped(_, _)
\* Some(Some(... v)) as deep as T is an Option
Wrapped(T, v) == IF T.kind = "Option" THEN Some(Wrapped(T.of, v)) ELSE v

RECURSIVE BaseOf(_)
BaseOf(T) == IF T.kind = "Option" THEN BaseOf(T.of) ELSE T

\* the raw value is one the base type can be read from
Readable(T, raw) == BaseOf(T).name = "TextEnum" => raw \in TextEnumValues

\* C25: for a column of an accepted type, NULL read into Option<T> gives
\* None; a present value read into Option<T> gives Some of what T reads,
\* never None, or the error of T; NULL read into a type that is not an
\* Option gives an error
C25_NullIsDistinguished ==
    (decoded # None /\ accepts(decoded.T, decoded.cell.pg)) =>
        LET T == decoded.T
            raw == decoded.cell.raw
        IN  /\ (raw = SqlNull /\ T.kind = "Option") => decoded.result = Ok(None)
            /\ (raw = SqlNull /\ T.kind = "Base") => decoded.result.kind = "Err"
            /\ (raw # SqlNull /\ Readable(T, raw)) =>
                    decoded.result = Ok(Wrapped(T, Decoded(raw)))
            /\ (raw # SqlNull /\ ~Readable(T, raw)) => decoded.result.kind = "Err"
            /\ (raw # SqlNull /\ T.kind = "Option") => decoded.result # Ok(None)

\* NULL was read into a type that is not an Option and gave an error
C25_Witness ==
    /\ decoded # None
    /\ decoded.T.kind = "Base"
    /\ accepts(decoded.T, decoded.cell.pg)
    /\ decoded.cell.raw = SqlNull
    /\ decoded.result = Err("unexpected NULL value")

\* --------------------------------------------------------------- C26
\* C26: a call of query_opt whose query matched more than one row ends in
\* an error and never in a panic, whatever concurrent writers do between
\* its two round trips
C26_QueryOptNeverPanics ==
    /\ qo.outcome # Panicked
    /\ (qo.pc = "done" /\ qo.seen > 1) => qo.outcome.kind = "Err"

\* --------------------------------------------------------------- C29
\* a statement from its FROM on
FromOn(sql) == SubSeq(sql, IndexOf(sql, Kw("FROM")), Len(sql))

\* C29: on every builder that gets built, returning::<R>() keeps filter,
\* joins, group_by, order_by, limit and offset as they are, so the built
\* statement changes in nothing but its column list; returning and filter
\* commute, as builders always and as built SQL and values on every builder
\* that has no filter yet; and a statement built after a late returning has
\* the clauses the earlier calls gave it
C29_ReturningKeepsClauses ==
    SelBuilt =>
        /\ \A R \in ReturningInputs :
              LET r == SelectBuilder_returning(sel, R)
                  br == SelectBuilder_build(r)
              IN  /\ r.filter_expr = sel.filter_expr
                  /\ r.joins = sel.joins
                  /\ r.group_by = sel.group_by
                  /\ r.order_by = sel.order_by
                  /\ r.limit = sel.limit
                  /\ r.offset = sel.offset
                  /\ FromOn(br.sql) = FromOn(sel_result.sql)
                  /\ br.values = sel_result.values
                  /\ \A e \in FilterInputs :
                        /\ SelectBuilder_filter(r, e)
                             = SelectBuilder_returning(SelectBuilder_filter(sel, e), R)
                        /\ sel.filter_expr = None =>
                             SelectBuilder_build(SelectBuilder_filter(r, e))
                               = SelectBuilder_build(
                                   SelectBuilder_returning(SelectBuilder_filter(sel, e), R))
        /\ sel_calls.late_returning =>
              /\ sel.filter_expr = Some(Conjunction(sel_calls.filters))
              /\ Len(sel.order_by) = Len(sel_calls.order_by)
              /\ \A j \in 1..Len(sel.order_by) :
                    KeyText(sel.order_by[j]) = KeyText(sel_calls.order_by[j])
              /\ sel.limit = sel_calls.limit.last
              /\ sel.offset = sel_calls.offset.last

\* a statement built after filter, order_by and limit were followed by
\* returning::<UserSummary>()
C29_Witness ==
    /\ SelBuilt
    /\ sel_calls.late_returning
    /\ sel.Returning = "UserSummary"
    /\ Len(sel_calls.filters) = MaxFilterCalls
    /\ sel.order_by # <<>>
    /\ sel.limit # None
    /\ sel.joins # <<>>


\* ------------------------------------------------------ #[sql] properties
\* a `:name` occurrence: a colon that no colon precedes, followed by \w
IsParam_at(sql, i) ==
    /\ sql[i] = ":"
    /\ i = 1 \/ sql[i - 1] # ":"
    /\ i < Len(sql) /\ sql[i + 1] \in WordChars

ParamNames(sql) ==
    {SubSeq(sql, i + 1, WordEnd(sql, i + 1) - 1) : i \in {j \in 1..Len(sql) : IsParam_at(sql, j)}}

PositionIn(fields, name) ==
    IF \E k \in 1..Len(fields) : fields[k] = name
    THEN CHOOSE k \in 1..Len(fields) : fields[k] = name
    ELSE 0

\* the literal with every `:name` occurrence replaced by `$k` and every
\* other character, the `::type` casts among them, kept
RECURSIVE Numbered(_, _, _)
Numbered(sql, fields, i) ==
    IF i > Len(sql) THEN <<>>
    ELSE IF IsParam_at(sql, i)
         THEN LET e == WordEnd(sql, i + 1)
              IN  <<"$">> \o Decimal(PositionIn(fields, SubSeq(sql, i + 1, e - 1)))
                    \o Numbered(sql, fields, e)
         ELSE <<sql[i]>> \o Numbered(sql, fields, i + 1)

\* C30: the generated bind-argument list holds each parameter name of the
\* literal once, and the generated SQL is the literal with every `:name`
\* replaced by `$k`, k the 1-based position of name in that list, with the
\* `::type` casts and everything else unchanged
C30_ParamsNumbered ==
    query_stmt # None =>
        LET q == query_stmt.v
        IN  /\ {q.fields[k] : k \in 1..Len(q.fields)} = ParamNames(lit_str)
            /\ \A j, k \in 1..Len(q.fields) : q.fields[j] = q.fields[k] => j = k
            /\ q.sql = Numbered(lit_str, q.fields, 1)
====
